---- MODULE Spec2Model ----
(***************************************************************************)
(* Model of the spec package of swagger2mcp: the document loader           *)
(* (internal/spec/loader.go: Load, fetchWithRetry, newLoader), the Swagger *)
(* v2 preprocessor (internal/spec/v2compat.go:                             *)
(* preprocessV2ForCompatibility) and the service model builder             *)
(* (internal/spec/v2compat.go: BuildServiceModel).                         *)
(*                                                                         *)
(* Go strings are modelled as sequences of byte values (ASCII codes), so   *)
(* that trimming, prefix tests, concatenation and the byte-wise order used *)
(* by sort.Strings are computed, not assumed.                              *)
(***************************************************************************)
EXTENDS Integers, Sequences, FiniteSets, TLC

VARIABLES
    \* ---- loader (Load / fetchWithRetry) ----
    input,      \* the input string handed to Load
    settings,   \* Settings after the options were applied
    exists,     \* the local paths at which a readable file exists
    ctxDone,    \* the caller's context is cancelled
    pc,         \* position of Load: start, fetch, backoff, parse, root, done
    i,          \* loop counter of fetchWithRetry
    attempts,   \* loop bound of fetchWithRetry
    backoff,    \* current backoff delay (milliseconds)
    lastErr,    \* lastErr of fetchWithRetry
    requests,   \* client.Do calls made by fetchWithRetry
    resps,      \* the outcomes of those calls, in order
    waits,      \* delays of the backoff timers started, in order
    raw,        \* the bytes read or fetched (as a document class)
    location,   \* resolved location (URL or absolute path)
    rootGets,   \* GETs of the root URL made by the openapi3 loader
    rootResp,   \* the outcome of the latest of those GETs
    converted,  \* the bytes Load handed to convertV2ToV3
    refReads,   \* the external $ref targets ReadFromURIFunc read
    steps,      \* the error of each step Load ran after the version switch
    result,     \* what Load returned
    \* ---- builder (BuildServiceModel) ----
    doc,        \* the validated v3 document
    opts,       \* the raw build options
    sm,         \* ServiceModel of the first run
    sm2,        \* ServiceModel of a second run over the same input
    \* ---- preprocessor (preprocessV2ForCompatibility) ----
    v2in,       \* the bytes handed to the preprocessor
    v2out,      \* what the preprocessor returned
    \* ---- the process-wide v2 store (v2SchemaStorage) ----
    store,      \* v2SchemaStorage.store: the entry kept for each document
    mu,         \* v2SchemaStorage.mu: the writer and the readers holding it
    call        \* per goroutine: where its calls stand and what they returned

loaderVars  == <<input, settings, exists, ctxDone, pc, i, attempts, backoff,
                 lastErr, requests, resps, waits, raw, location, rootGets,
                 rootResp, converted, refReads, steps, result>>
builderVars == <<doc, opts, sm, sm2>>
preVars     == <<v2in, v2out>>
cacheVars   == <<store, mu, call>>
vars        == <<loaderVars, builderVars, preVars, cacheVars>>

\* the store as a single invocation finds it: empty, the lock free
CacheIdle ==
    /\ store = <<>>
    /\ mu = [writer |-> 0, readers |-> {}]
    /\ call = <<>>

-----------------------------------------------------------------------------
(* Strings as byte sequences                                               *)

\* unicode.IsSpace restricted to ASCII: space, \t, \n, \v, \f, \r
IsSpace(c) == c \in {32, 9, 10, 11, 12, 13}

RECURSIVE TrimLeft(_)
TrimLeft(s) ==
    IF s = <<>> THEN s
    ELSE IF IsSpace(Head(s)) THEN TrimLeft(Tail(s)) ELSE s

RECURSIVE TrimRight(_)
TrimRight(s) ==
    IF s = <<>> THEN s
    ELSE IF IsSpace(s[Len(s)]) THEN TrimRight(SubSeq(s, 1, Len(s) - 1)) ELSE s

\* strings.TrimSpace
TrimSpace(s) == TrimRight(TrimLeft(s))

\* strings.HasPrefix
HasPrefix(s, p) == Len(s) >= Len(p) /\ SubSeq(s, 1, Len(p)) = p

\* strings.Contains
Contains(s, sub) ==
    \E k \in 1..(Len(s) - Len(sub) + 1) : SubSeq(s, k, k + Len(sub) - 1) = sub

\* strings.ToLower on ASCII
ToLower(s) == [k \in 1..Len(s) |-> IF s[k] \in 65..90 THEN s[k] + 32 ELSE s[k]]

\* Go's < on strings: byte-wise lexicographic order
RECURSIVE StrLess(_, _)
StrLess(a, b) ==
    IF b = <<>> THEN FALSE
    ELSE IF a = <<>> THEN TRUE
    ELSE IF Head(a) # Head(b) THEN Head(a) < Head(b)
    ELSE StrLess(Tail(a), Tail(b))

\* index of the first occurrence of byte c in s at or after position k, 0 if none
RECURSIVE IndexFrom(_, _, _)
IndexFrom(s, c, k) ==
    IF k > Len(s) THEN 0
    ELSE IF s[k] = c THEN k ELSE IndexFrom(s, c, k + 1)

-----------------------------------------------------------------------------
(* Error codes (loader.go:25-31)                                           *)

InputError      == "InputError"
NetworkError    == "NetworkError"
ParseError      == "ParseError"
ValidationError == "ValidationError"
ConversionError == "ConversionError"

\* &SpecError{Code, Location}
SpecError(code, loc) == [kind |-> "err", code |-> code, location |-> loc]
\* a returned *openapi3.T
Document(d, loc)     == [kind |-> "doc", raw |-> d, location |-> loc]
NoResult             == [kind |-> "none"]

-----------------------------------------------------------------------------
(* Input classification: url.Parse and filepath.Abs as Load uses them       *)

IsLetter(c) == c \in 65..90 \/ c \in 97..122
IsSchemeExtra(c) == c \in 48..57 \/ c \in {43, 45, 46}      \* 0-9 + - .

\* net/url getScheme: position of the ':' ending the scheme, 0 when the
\* string has no scheme, -1 for "missing protocol scheme"
RECURSIVE SchemeEnd(_, _)
SchemeEnd(s, k) ==
    IF k > Len(s) THEN 0
    ELSE IF IsLetter(s[k]) THEN SchemeEnd(s, k + 1)
    ELSE IF IsSchemeExtra(s[k]) THEN (IF k = 1 THEN 0 ELSE SchemeEnd(s, k + 1))
    ELSE IF s[k] = 58 THEN (IF k = 1 THEN -1 ELSE k)
    ELSE 0

\* url.Parse(input): the fields Load reads (err, Scheme, Host), plus Path
ParseURL(s) ==
    LET e      == SchemeEnd(s, 1)
        scheme == IF e > 0 THEN ToLower(SubSeq(s, 1, e - 1)) ELSE <<>>
        rest   == IF e > 0 THEN SubSeq(s, e + 1, Len(s)) ELSE s
        slash  == IndexFrom(rest, 47, 1)
        colon  == IndexFrom(rest, 58, 1)
        seg1   == colon > 0 /\ (slash = 0 \/ colon < slash)
        auth   == (scheme # <<>> \/ ~HasPrefix(rest, <<47, 47, 47>>))
                  /\ HasPrefix(rest, <<47, 47>>)
        hend   == IndexFrom(rest, 47, 3)
        host   == IF ~auth THEN <<>>
                  ELSE IF hend = 0 THEN SubSeq(rest, 3, Len(rest))
                  ELSE SubSeq(rest, 3, hend - 1)
        path   == IF ~auth THEN rest
                  ELSE IF hend = 0 THEN <<>> ELSE SubSeq(rest, hend, Len(rest))
    IN  IF e = -1 THEN [err |-> TRUE, Scheme |-> <<>>, Host |-> <<>>, Path |-> <<>>]
        ELSE IF ~HasPrefix(rest, <<47>>) /\ scheme = <<>> /\ seg1
             THEN [err |-> TRUE, Scheme |-> <<>>, Host |-> <<>>, Path |-> <<>>]
        ELSE IF ~HasPrefix(rest, <<47>>) /\ scheme # <<>>
             THEN [err |-> FALSE, Scheme |-> scheme, Host |-> <<>>, Path |-> <<>>]
        ELSE [err |-> FALSE, Scheme |-> scheme, Host |-> host, Path |-> path]

\* the working directory of the process: "/w"
Cwd == <<47, 119>>

\* filepath.Clean, on paths without "." and ".." elements: repeated
\* separators collapse and a trailing separator is dropped
RECURSIVE Clean(_)
Clean(p) ==
    IF Len(p) <= 1 THEN p
    ELSE IF p[1] = 47 /\ p[2] = 47 THEN Clean(Tail(p))
    ELSE IF Len(p) = 2 /\ p[2] = 47 THEN <<p[1]>>
    ELSE <<p[1]>> \o Clean(Tail(p))

\* filepath.Abs
Abs(p) == IF HasPrefix(p, <<47>>) THEN Clean(p) ELSE Clean(Cwd \o <<47>> \o p)

S_file  == <<102, 105, 108, 101>>          \* "file"
S_http  == <<104, 116, 116, 112>>          \* "http"
S_https == <<104, 116, 116, 112, 115>>     \* "https"

IsURL(s) ==
    LET u == ParseURL(s) IN ~u.err /\ u.Scheme # <<>> /\ u.Host # <<>>

\* the inputs of Load that are tried
Inputs ==
    {<<>>,                                                    \* ""
     <<32, 9>>,                                               \* " \t"
     <<115>>,                                                 \* "s"
     <<47, 115>>,                                             \* "/s"
     <<102, 105, 108, 101, 58, 47, 47, 47, 101>>,             \* "file:///e"
     <<102, 105, 108, 101, 58, 47, 47, 104, 47, 101>>,        \* "file://h/e"
     <<70, 73, 76, 69, 58, 47, 47, 104, 47, 101>>,            \* "FILE://h/e"
     <<102, 116, 112, 58, 47, 47, 104, 47, 115>>,             \* "ftp://h/s"
     <<104, 116, 116, 112, 58, 47, 47, 104, 47, 115>>,        \* "http://h/s"
     <<72, 84, 84, 80, 83, 58, 47, 47, 104, 47, 115>>}        \* "HTTPS://h/s"

\* an input written as a file: URL
IsFileURLInput(s) == HasPrefix(ToLower(s), S_file \o <<58, 47, 47>>)

\* an input Load fetches over the network
IsHTTPInput(s) ==
    IsURL(s) /\ ToLower(ParseURL(s).Scheme) \in {S_http, S_https}

\* the local paths whose existence can matter to Load(s): the path Load
\* derives from the input string and, for a file: URL, the URL's target
FsPaths(s) ==
    IF TrimSpace(s) = <<>> THEN {}
    ELSE {Abs(s)} \cup (IF IsFileURLInput(s) /\ ~ParseURL(s).err
                        THEN {ParseURL(s).Path} ELSE {})

-----------------------------------------------------------------------------
(* Settings                                                                 *)

MaxRetriesBound == 3

DefaultHTTPTimeout == 10000
DefaultMaxRetries  == 3
DefaultBackoffBase == 200
FallbackBackoff    == 200

DefaultSettings ==
    [HTTPTimeout |-> DefaultHTTPTimeout, MaxRetries |-> DefaultMaxRetries,
     BackoffBase |-> DefaultBackoffBase, AllowFileRefs |-> FALSE]

\* the settings after WithMaxRetries / WithBackoffBase were applied
SettingsSet ==
    {[DefaultSettings EXCEPT !.MaxRetries = n, !.BackoffBase = b] :
        n \in -1..MaxRetriesBound, b \in {-1, 0, 50, DefaultBackoffBase}}
    \cup {[DefaultSettings EXCEPT !.AllowFileRefs = TRUE]}

-----------------------------------------------------------------------------
(* Raw documents, by the properties the loader branches on                  *)

Absent      == [kind |-> "absent", s |-> <<>>]
StrVal(s)   == [kind |-> "str", s |-> s]
NumVal(s)   == [kind |-> "num", s |-> s]      \* a YAML scalar that is no string

\* v.(string): the string of a value, "" when the value is no string
AsString(v) == IF v.kind = "str" THEN v.s ELSE <<>>

S_300 == <<51, 46, 48, 46, 48>>      \* "3.0.0"
S_20  == <<50, 46, 48>>              \* "2.0"

\* HttpMethod constants (model: type HttpMethod)
GET     == <<103, 101, 116>>
POST    == <<112, 111, 115, 116>>
PUT     == <<112, 117, 116>>
DELETE  == <<100, 101, 108, 101, 116, 101>>
PATCH   == <<112, 97, 116, 99, 104>>
HEAD    == <<104, 101, 97, 100>>
OPTIONS == <<111, 112, 116, 105, 111, 110, 115>>
TRACE   == <<116, 114, 97, 99, 101>>

-----------------------------------------------------------------------------
(* The Swagger v2 compatibility preprocessor (v2compat.go:19-196)           *)
(* A document is the generic tree yaml.Unmarshal gives: every value carries *)
(* its kind (absent, str, num, bool, list, map).                            *)

BoolVal(b)  == [kind |-> "bool", s |-> <<>>, b |-> b]
ListVal(xs) == [kind |-> "list", s |-> <<>>, items |-> xs]
MapVal(f)   == [kind |-> "map", s |-> <<>>, entries |-> f]

\* the string literals of the preprocessor
V2Str ==
    [body     |-> <<98, 111, 100, 121>>,                         \* "body"
     formData |-> <<102, 111, 114, 109, 68, 97, 116, 97>>,       \* "formData"
     field    |-> <<102, 105, 101, 108, 100>>,                   \* "field"
     string   |-> <<115, 116, 114, 105, 110, 103>>,              \* "string"
     object   |-> <<111, 98, 106, 101, 99, 116>>,                \* "object"
     multipart |-> <<109, 117, 108, 116, 105, 112, 97, 114, 116, 47, 102, 111, 114,
                     109, 45, 100, 97, 116, 97>>]                \* "multipart/form-data"

\* a schema object: a map with the keys the preprocessor reads or writes
V2Schema(type, format, items, ref) ==
    [kind |-> "map", s |-> <<>>, type |-> type, format |-> format, items |-> items,
     ref |-> ref, properties |-> Absent, required |-> Absent]

\* a parameter object
V2Param(in, name, required, schema, type, format, items) ==
    [kind |-> "map", s |-> <<>>, in |-> in, name |-> name, required |-> required,
     description |-> Absent, schema |-> schema, type |-> type, format |-> format,
     items |-> items]

\* an operation object
V2Op(parameters, consumes) ==
    [kind |-> "map", s |-> <<>>, parameters |-> parameters, consumes |-> consumes]

\* the bytes of a document: whether they parse as YAML, whether they are the
\* input as written or the output of yaml.Marshal, and the value of "paths"
V2Bytes(yaml, paths) ==
    [kind |-> "bytes", yaml |-> yaml, form |-> "written", paths |-> paths]

NoBytes  == [kind |-> "none"]
NoOutput == [kind |-> "none"]

\* strings.EqualFold(asString(pm["in"]), want)
ParamIn(pm, want) == pm.kind = "map" /\ ToLower(AsString(pm.in)) = ToLower(want)

\* asString(pm["name"]), "field" when empty
ParamName(pm) == IF AsString(pm.name) = <<>> THEN V2Str.field ELSE AsString(pm.name)

\* containsString
containsString(list, want) ==
    \E k \in 1..Len(list) : list[k].kind = "str" /\ list[k].s = want

\* extractSchemaFromParam; Absent stands for nil
extractSchemaFromParam(pm) ==
    IF pm.schema.kind = "map" THEN pm.schema
    ELSE IF AsString(pm.type) = <<>> THEN Absent
    ELSE V2Schema(StrVal(AsString(pm.type)),
                  IF AsString(pm.format) # <<>> THEN pm.format ELSE Absent,
                  IF pm.items.kind = "map" THEN pm.items ELSE Absent,
                  Absent)

\* formDataFromBodyParam
formDataFromBodyParam(pm) ==
    LET sch  == pm.schema
        isS  == sch.kind = "map"
        typ1 == IF isS /\ AsString(sch.type) # <<>> THEN AsString(sch.type)
                ELSE IF isS /\ sch.ref.kind # "absent" THEN V2Str.string
                ELSE <<>>
        itm1 == IF isS /\ sch.items.kind = "map" THEN sch.items ELSE Absent
        fmt1 == IF isS THEN AsString(sch.format) ELSE <<>>
        typ2 == IF typ1 = <<>> THEN AsString(pm.type) ELSE typ1
        itm2 == IF typ1 = <<>> /\ pm.items.kind = "map" THEN pm.items ELSE itm1
        fmt2 == IF typ1 = <<>> /\ pm.format.kind = "str" THEN pm.format.s ELSE fmt1
        typ  == IF typ2 = <<>> THEN V2Str.string ELSE typ2
    IN  [V2Param(StrVal(V2Str.formData), StrVal(ParamName(pm)),
                 IF pm.required.kind = "bool" THEN pm.required ELSE Absent,
                 Absent, StrVal(typ),
                 IF fmt2 # <<>> THEN StrVal(fmt2) ELSE Absent, itm2)
         EXCEPT !.description = IF AsString(pm.description) # <<>>
                                THEN pm.description ELSE Absent]

\* the mixed case: every body parameter becomes a formData parameter, the
\* entries that are no maps are dropped (v2compat.go:62-72)
RECURSIVE bodyParamsToFormData(_)
bodyParamsToFormData(params) ==
    IF params = <<>> THEN <<>>
    ELSE LET pm == Head(params) IN
         (IF pm.kind # "map" THEN <<>>
          ELSE IF ParamIn(pm, V2Str.body) THEN <<formDataFromBodyParam(pm)>>
          ELSE <<pm>>)
         \o bodyParamsToFormData(Tail(params))

\* a variant that appends the media type without looking for it
ensureMultipart_AlwaysAppend(consumes) ==
    ListVal(Append(IF consumes.kind = "list" THEN consumes.items ELSE <<>>,
                   StrVal(V2Str.multipart)))

\* "Ensure consumes contains multipart/form-data" (v2compat.go:74-81)
ensureMultipart(consumes) ==
    LET c == IF consumes.kind = "list" THEN consumes.items ELSE <<>>
    IN  IF containsString(c, V2Str.multipart) THEN consumes
        ELSE ListVal(Append(c, StrVal(V2Str.multipart)))

\* a variant that leaves the first body parameter out of the merge
mergeBodyParams_DropFirst(params) ==
    LET k1 == CHOOSE k \in 1..Len(params) :
                 /\ ParamIn(params[k], V2Str.body)
                 /\ \A j \in 1..(k - 1) : ~ParamIn(params[j], V2Str.body)
        rest == SubSeq(params, 1, k1 - 1) \o SubSeq(params, k1 + 1, Len(params))
        bodies == SelectSeq(rest, LAMBDA pm : ParamIn(pm, V2Str.body))
        others == SelectSeq(rest, LAMBDA pm : pm.kind = "map" /\ ~ParamIn(pm, V2Str.body))
        props == [n \in {ParamName(bodies[k]) : k \in 1..Len(bodies)} |->
                    V2Schema(StrVal(V2Str.string), Absent, Absent, Absent)]
    IN  <<V2Param(StrVal(V2Str.body), StrVal(V2Str.body), Absent,
                  [V2Schema(StrVal(V2Str.object), Absent, Absent, Absent)
                   EXCEPT !.properties = MapVal(props)],
                  Absent, Absent, Absent)>> \o others

\* the multiple-body case: one merged body parameter in front of the other
\* parameters (v2compat.go:85-115)
mergeBodyParams(params) ==
    LET bodies == SelectSeq(params, LAMBDA pm : ParamIn(pm, V2Str.body))
        others == SelectSeq(params, LAMBDA pm : pm.kind = "map" /\ ~ParamIn(pm, V2Str.body))
        schemaOf(pm) == IF extractSchemaFromParam(pm).kind = "map"
                        THEN extractSchemaFromParam(pm)
                        ELSE V2Schema(StrVal(V2Str.string), Absent, Absent, Absent)
        last(n) == CHOOSE k \in 1..Len(bodies) :
                      /\ ParamName(bodies[k]) = n
                      /\ \A j \in (k + 1)..Len(bodies) : ParamName(bodies[j]) # n
        props == [n \in {ParamName(bodies[k]) : k \in 1..Len(bodies)} |->
                    schemaOf(bodies[last(n)])]
        reqd  == SelectSeq(bodies, LAMBDA pm : pm.required.kind = "bool" /\ pm.required.b)
        required == [k \in 1..Len(reqd) |-> StrVal(ParamName(reqd[k]))]
        bodySchema == [V2Schema(StrVal(V2Str.object), Absent, Absent, Absent)
                       EXCEPT !.properties = MapVal(props),
                              !.required = IF Len(required) > 0 THEN ListVal(required)
                                           ELSE Absent]
    IN  <<V2Param(StrVal(V2Str.body), StrVal(V2Str.body), Absent, bodySchema,
                  Absent, Absent, Absent)>> \o others

\* the body of the loop over the methods of a path item (v2compat.go:41-117):
\* the operation as rewritten and whether modified was set
rewriteOperation(op) ==
    LET same == [op |-> op, modified |-> FALSE] IN
    IF op.kind # "map" THEN same
    ELSE IF op.parameters.kind # "list" THEN same
    ELSE IF Len(op.parameters.items) = 0 THEN same
    ELSE LET params == op.parameters.items
             bodyCount == Len(SelectSeq(params, LAMBDA pm : ParamIn(pm, V2Str.body)))
             hasFormData == \E k \in 1..Len(params) : ParamIn(params[k], V2Str.formData)
         IN  IF bodyCount = 0 THEN same
             ELSE IF hasFormData THEN
                 [op |-> [op EXCEPT !.parameters = ListVal(bodyParamsToFormData(params)),
                                    !.consumes = ensureMultipart(op.consumes)],
                  modified |-> TRUE]
             ELSE IF bodyCount > 1 THEN
                 [op |-> [op EXCEPT !.parameters = ListVal(mergeBodyParams(params))],
                  modified |-> TRUE]
             ELSE same

\* the keys of a path item the preprocessor takes for operations, compared
\* in lower case (v2compat.go:35-40)
V2MethodKeys == {GET, POST, PUT, DELETE, PATCH, OPTIONS, HEAD}

\* the loop over the keys of one path item (v2compat.go:32-118)
rewritePathItem(pi) ==
    IF pi.kind # "map" THEN [item |-> pi, modified |-> FALSE]
    ELSE LET isOp(k) == ToLower(k) \in V2MethodKeys
             r(k) == rewriteOperation(pi.entries[k])
         IN  [item |-> MapVal([k \in DOMAIN pi.entries |->
                                  IF isOp(k) THEN r(k).op ELSE pi.entries[k]]),
              modified |-> \E k \in DOMAIN pi.entries : isOp(k) /\ r(k).modified]

\* a variant that writes the document out again although nothing was rewritten
preprocessV2ForCompatibility_AlwaysMarshal(data) ==
    IF ~data.yaml THEN [out |-> data, changed |-> FALSE, err |-> TRUE]
    ELSE [out |-> [data EXCEPT !.form = "marshalled"], changed |-> FALSE, err |-> FALSE]

\* preprocessV2ForCompatibility: the bytes returned, the changed flag and
\* whether an error is returned. yaml.Marshal of a tree that yaml.Unmarshal
\* produced does not fail.
preprocessV2ForCompatibility(data) ==
    IF ~data.yaml THEN [out |-> data, changed |-> FALSE, err |-> TRUE]
    ELSE IF data.paths.kind # "map" THEN [out |-> data, changed |-> FALSE, err |-> FALSE]
    ELSE IF DOMAIN data.paths.entries = {}
         THEN [out |-> data, changed |-> FALSE, err |-> FALSE]
    ELSE LET paths == data.paths.entries
             r(p) == rewritePathItem(paths[p])
         IN  IF ~(\E p \in DOMAIN paths : r(p).modified)
             THEN [out |-> data, changed |-> FALSE, err |-> FALSE]
             ELSE [out |-> [data EXCEPT !.form = "marshalled",
                                        !.paths = MapVal([p \in DOMAIN paths |-> r(p).item])],
                   changed |-> TRUE, err |-> FALSE]

\* ---- the v2 documents the preprocessor is run on
MaxV2Params == 3

V2Params ==
    LET str == StrVal(V2Str.string)
        a == StrVal(<<97>>)
        c == StrVal(<<99>>)
    IN  {V2Param(StrVal(V2Str.body), a, BoolVal(TRUE),                 \* a string with a format
                 V2Schema(str, StrVal(<<102>>), Absent, Absent), Absent, Absent, Absent),
         V2Param(StrVal(V2Str.body), Absent, Absent,                   \* unnamed, a $ref
                 V2Schema(Absent, Absent, Absent, StrVal(<<35, 47, 80>>)),
                 Absent, Absent, Absent),
         V2Param(StrVal(<<66, 79, 68, 89>>), a, BoolVal(FALSE),        \* "BODY", an inline object
                 V2Schema(StrVal(V2Str.object), Absent, Absent, Absent),
                 Absent, Absent, Absent),
         V2Param(StrVal(V2Str.body), c, BoolVal(TRUE),                 \* an array of strings
                 V2Schema(StrVal(<<97, 114, 114, 97, 121>>), Absent,
                          V2Schema(str, Absent, Absent, Absent), Absent),
                 Absent, Absent, Absent),
         [V2Param(StrVal(V2Str.body), c, StrVal(<<121>>), Absent,      \* no schema, its own type
                  StrVal(<<105, 110, 116, 101, 103, 101, 114>>), StrVal(<<105>>), Absent)
          EXCEPT !.description = StrVal(<<100>>)],
         V2Param(StrVal(V2Str.body), StrVal(<<101>>), Absent,          \* a schema without a type
                 V2Schema(Absent, Absent, Absent, Absent), Absent, Absent, Absent),
         V2Param(StrVal(V2Str.formData), StrVal(<<102>>), Absent, Absent,   \* a file upload
                 StrVal(<<102, 105, 108, 101>>), Absent, Absent),
         V2Param(StrVal(<<113, 117, 101, 114, 121>>), StrVal(<<113>>), Absent, Absent,
                 str, Absent, Absent),                                 \* a query parameter
         NumVal(<<49>>)}                                               \* an entry that is no map

V2Consumes ==
    {Absent,
     StrVal(<<97, 47, 106>>),                                          \* a string, no list
     ListVal(<<StrVal(<<97, 47, 106>>), NumVal(<<49>>)>>),
     ListVal(<<StrVal(V2Str.multipart), StrVal(<<97, 47, 106>>)>>)}

\* a parameter list of n body parameters "a", "b", ...
V2BodyList(n) ==
    ListVal([k \in 1..n |-> V2Param(StrVal(V2Str.body), StrVal(<<96 + k>>), Absent, Absent,
                                     Absent, Absent, Absent)])

\* a document with the one path "/b" whose item is pi
V2OnePath(pi) == V2Bytes(TRUE, MapVal([p \in {<<47, 98>>} |-> pi]))

\* a path item with the one key k
V2OneKey(k, v) == MapVal([x \in {k} |-> v])

\* documents with one POST operation
V2OpDocs ==
    {V2OnePath(V2OneKey(POST, V2Op(ListVal(ps), c))) :
        ps \in UNION {[1..n -> V2Params] : n \in 0..MaxV2Params}, c \in V2Consumes}

\* documents of other shapes: bytes that are no YAML; paths missing, no map
\* or empty; a path item that is no map; keys that are no operations; an
\* operation that is no map or whose parameters are no list; two operations
V2ShapeDocs ==
    LET twoBodies == V2BodyList(2)
        oneBody   == V2BodyList(1)
    IN  {V2Bytes(FALSE, Absent), V2Bytes(TRUE, Absent), V2Bytes(TRUE, NumVal(<<49>>)),
         V2Bytes(TRUE, MapVal(<<>>)),
         V2OnePath(NumVal(<<49>>)),
         V2OnePath(V2OneKey(<<112, 97, 114, 97, 109, 101, 116, 101, 114, 115>>, twoBodies)),
         V2OnePath(V2OneKey(TRACE, V2Op(twoBodies, Absent))),
         V2OnePath(V2OneKey(<<80, 79, 83, 84>>, V2Op(twoBodies, Absent))),
         V2OnePath(V2OneKey(POST, NumVal(<<49>>))),
         V2OnePath(V2OneKey(POST, V2Op(NumVal(<<49>>), Absent))),
         V2OnePath(V2OneKey(POST, V2Op(Absent, Absent))),
         V2OnePath(MapVal([k \in {GET, PUT} |->
                             V2Op(IF k = GET THEN oneBody ELSE twoBodies, Absent)])),
         V2Bytes(TRUE, MapVal([p \in {<<47, 97>>, <<47, 98>>} |->
                             V2OneKey(PUT, V2Op(IF p = <<47, 97>> THEN twoBodies ELSE oneBody,
                                                Absent))]))}

\* if fixed, changed, _ := preprocessV2ForCompatibility(raw); changed { raw =
\* fixed }: the bytes convertV2ToV3 is then called with (loader.go:134-137,
\* 193-196)
FixedBytes(bytes) ==
    LET r == preprocessV2ForCompatibility(bytes)
    IN  IF r.changed THEN r.out ELSE bytes

\* the same statements of Load run on the bytes v2in, which
\* detectSpecVersion has parsed before
LoadPreprocess ==
    /\ v2in.kind = "bytes"
    /\ v2in.yaml
    /\ converted.kind = "none"
    /\ converted' = FixedBytes(v2in)
    /\ UNCHANGED <<input, settings, exists, ctxDone, pc, i, attempts, backoff, lastErr,
                   requests, resps, waits, raw, location, rootGets, rootResp, refReads,
                   steps, result>>
    /\ UNCHANGED <<builderVars, preVars, cacheVars>>

\* one call of the preprocessor
Preprocess ==
    /\ v2in.kind = "bytes"
    /\ v2out.kind = "none"
    /\ LET r == preprocessV2ForCompatibility(v2in)
       IN  v2out' = [kind |-> "ret", out |-> r.out, changed |-> r.changed, err |-> r.err]
    /\ UNCHANGED <<v2in, loaderVars, builderVars, cacheVars>>

\* syntax: the bytes parse as YAML; openapi, swagger: the version fields;
\* conv: convertV2ToV3 accepts the bytes as written; load, valid: the class of
\* the error of the openapi3 loader and of Validate. A document without
\* operations and without an external $ref has paths and ref absent.
RawDoc(syntax, openapi, swagger, conv, load, valid) ==
    [kind |-> "raw", syntax |-> syntax, openapi |-> openapi, swagger |-> swagger,
     conv |-> conv, load |-> load, valid |-> valid,
     paths |-> Absent, convFixed |-> conv, ref |-> Absent, resolve |-> "ok"]

\* the document d with the paths node ps; convFixed: convertV2ToV3 accepts
\* the bytes the preprocessor writes for it
WithPaths(d, ps, convFixed) == [d EXCEPT !.paths = ps, !.convFixed = convFixed]

\* the document d with one external $ref to uri; resolve: the class of the
\* error of ResolveRefsIn once the target was read
WithRef(d, uri, resolve) == [d EXCEPT !.ref = StrVal(uri), !.resolve = resolve]

NoRaw == [RawDoc(FALSE, Absent, Absent, FALSE, "ok", "ok") EXCEPT !.kind = "none"]

\* the documents behind the inputs: well-formed 3.0.0 and "2.0" documents
\* that load, that keep an unresolved reference, that fail validation, that
\* fail to load or to convert; swagger: 2.0 written as a number; a document
\* without a version field; bytes that are no YAML or JSON
RawDocs ==
    {RawDoc(TRUE, StrVal(S_300), Absent, FALSE, "ok", "ok"),
     RawDoc(TRUE, StrVal(S_300), Absent, FALSE, "ok", "unresolved"),
     RawDoc(TRUE, StrVal(S_300), Absent, FALSE, "ok", "invalid"),
     RawDoc(TRUE, StrVal(S_300), Absent, FALSE, "parse", "ok"),
     RawDoc(TRUE, Absent, StrVal(S_20), TRUE, "ok", "ok"),
     RawDoc(TRUE, Absent, StrVal(S_20), TRUE, "ok", "unresolved"),
     RawDoc(TRUE, Absent, StrVal(S_20), TRUE, "ok", "invalid"),
     RawDoc(TRUE, Absent, StrVal(S_20), FALSE, "ok", "ok"),
     RawDoc(TRUE, Absent, NumVal(S_20), TRUE, "ok", "ok"),
     RawDoc(TRUE, Absent, Absent, FALSE, "ok", "ok"),
     RawDoc(FALSE, Absent, Absent, FALSE, "parse", "ok"),
     \* a validation error that names the path /parse
     RawDoc(TRUE, StrVal(S_300), Absent, FALSE, "ok", "invalidParse"),
     \* "2.0" documents with one POST operation: two body parameters, which
     \* convert only once merged; one body parameter, left as written
     WithPaths(RawDoc(TRUE, Absent, StrVal(S_20), FALSE, "ok", "ok"),
               V2OnePath(V2OneKey(POST, V2Op(V2BodyList(2), Absent))).paths, TRUE),
     WithPaths(RawDoc(TRUE, Absent, StrVal(S_20), TRUE, "ok", "ok"),
               V2OnePath(V2OneKey(POST, V2Op(V2BodyList(1), Absent))).paths, FALSE),
     \* documents with an external $ref: file:///o, the relative o,
     \* http://h/o, ftp://h/o
     WithRef(RawDoc(TRUE, StrVal(S_300), Absent, FALSE, "ok", "ok"),
             <<102, 105, 108, 101, 58, 47, 47, 47, 111>>, "ok"),
     WithRef(RawDoc(TRUE, StrVal(S_300), Absent, FALSE, "ok", "ok"), <<111>>, "ok"),
     WithRef(RawDoc(TRUE, StrVal(S_300), Absent, FALSE, "ok", "ok"),
             <<104, 116, 116, 112, 58, 47, 47, 104, 47, 111>>, "ok"),
     WithRef(RawDoc(TRUE, StrVal(S_300), Absent, FALSE, "ok", "ok"),
             <<102, 116, 112, 58, 47, 47, 104, 47, 111>>, "ok"),
     WithRef(RawDoc(TRUE, Absent, StrVal(S_20), TRUE, "ok", "ok"), <<111>>, "ok"),
     \* a "2.0" document whose reference to http://h/o cannot be resolved
     WithRef(RawDoc(TRUE, Absent, StrVal(S_20), TRUE, "ok", "unresolved"),
             <<104, 116, 116, 112, 58, 47, 47, 104, 47, 111>>, "fail")}

\* detectSpecVersion: 3, 2, or 0 for an error
detectSpecVersion(d) ==
    IF ~d.syntax THEN 0
    ELSE IF d.openapi.kind # "absent"
            /\ HasPrefix(TrimSpace(AsString(d.openapi)), <<51, 46>>) THEN 3
    ELSE IF d.swagger.kind # "absent"
            /\ HasPrefix(TrimSpace(AsString(d.swagger)), <<50, 46>>) THEN 2
    ELSE 0

\* err.Error() of the errors of the loader, of Validate and of
\* ReadFromURIFunc, by the name the documents give them ("ok" is a nil error)
ErrorText ==
    [ok           |-> <<>>,
     parse        |-> <<112, 97, 114, 115, 101, 32, 101, 114, 114, 111, 114>>,     \* "parse error"
     unresolved   |-> <<102, 111, 117, 110, 100, 32, 117, 110, 114, 101, 115, 111, 108, 118, 101, 100, 32, 114, 101, 102>>,     \* "found unresolved ref"
     invalid      |-> <<105, 110, 118, 97, 108, 105, 100, 32, 112, 97, 116, 104, 32, 47, 98>>,     \* "invalid path /b"
     invalidParse |-> <<105, 110, 118, 97, 108, 105, 100, 32, 112, 97, 116, 104, 32, 47, 112, 97, 114, 115, 101>>,     \* "invalid path /parse"
     get          |-> <<104, 116, 116, 112, 32, 52, 48, 52>>,     \* "http 404"
     fail         |-> <<102, 97, 105, 108, 101, 100, 32, 116, 111, 32, 114, 101, 115, 111, 108, 118, 101>>,     \* "failed to resolve"
     blocked      |-> <<98, 108, 111, 99, 107, 101, 100, 32, 102, 105, 108, 101, 32, 114, 101, 102>>,     \* "blocked file ref"
     unsupported  |-> <<117, 110, 115, 117, 112, 112, 111, 114, 116, 101, 100, 32, 114, 101, 102, 32, 115, 99, 104, 101, 109, 101>>]     \* "unsupported ref scheme"

\* canProceedDespiteValidation, on the class of the validation error
canProceedDespiteValidation(err) ==
    \/ err = "ok"
    \/ Contains(ToLower(ErrorText[err]),
                <<117, 110, 114, 101, 115, 111, 108, 118, 101, 100, 32, 114, 101, 102>>)     \* "unresolved ref"

\* mapValidateOrParseErr: ParseError when the message contains "parse" or
\* "invalid character", ValidationError otherwise
mapValidateOrParseErr(msg, loc) ==
    SpecError(IF \/ Contains(ToLower(ErrorText[msg]), <<112, 97, 114, 115, 101>>)
                 \/ Contains(ToLower(ErrorText[msg]), <<105, 110, 118, 97, 108, 105, 100, 32, 99, 104, 97, 114, 97, 99, 116, 101, 114>>)
              THEN ParseError ELSE ValidationError, loc)

\* doc.Validate of a document the v3 loader accepted
ValidateV3(d) == IF detectSpecVersion(d) # 3 THEN "invalid" ELSE d.valid

\* newLoader: the fields of the loader its ReadFromURIFunc depends on
newLoader(s, rootIsFile) ==
    [IsExternalRefsAllowed |-> TRUE, allowFile |-> s.AllowFileRefs \/ rootIsFile]

\* loader.ReadFromURIFunc on a URI of the given scheme: "read" when it goes
\* on to os.ReadFile or client.Do, else the class of the error it returns
ReadFromURIFunc(loader, scheme) ==
    IF ToLower(scheme) \in {<<>>, S_file}
    THEN (IF loader.allowFile THEN "read" ELSE "blocked")
    ELSE IF ToLower(scheme) \in {S_http, S_https} THEN "read"
    ELSE "unsupported"

\* the scheme of the URI the openapi3 loader hands to ReadFromURIFunc for the
\* $ref of d: the ref's own, or for a relative ref that of the root location
\* (root = "" when ResolveRefsIn is called without a location)
RefScheme(d, root) ==
    IF ParseURL(d.ref.s).Scheme # <<>> THEN ParseURL(d.ref.s).Scheme
    ELSE ParseURL(root).Scheme

\* the outcome of resolving the external $ref of d, "none" without one
ResolveRef(d, loader, root) ==
    IF d.ref.kind = "absent" THEN "none"
    ELSE ReadFromURIFunc(loader, RefScheme(d, root))

\* the targets read while doing so
RefsRead(d, loader, root) ==
    IF ResolveRef(d, loader, root) = "read" THEN {d.ref.s} ELSE {}

NoSteps == [load |-> "none", convert |-> "none", resolve |-> "none", validate |-> "none"]

\* the errors of the steps of a "case 3" branch: loader.LoadFromURI or
\* LoadFromFile, which reads the external references, then doc.Validate
StepsV3(d, loc, loader) ==
    LET ref  == ResolveRef(d, loader, loc)
        load == IF ref \in {"blocked", "unsupported"} THEN ref ELSE d.load
    IN  [NoSteps EXCEPT !.load = load,
                        !.validate = IF load = "ok" THEN ValidateV3(d) ELSE "none"]

\* the tail of a "case 3" branch of Load: the loader's parse, which resolves
\* the references, then Validate
LoadV3(d, loc, loader) ==
    IF ResolveRef(d, loader, loc) \in {"blocked", "unsupported"}
    THEN mapValidateOrParseErr(ResolveRef(d, loader, loc), loc)
    ELSE IF d.load # "ok" THEN mapValidateOrParseErr(d.load, loc)
    ELSE IF ~canProceedDespiteValidation(ValidateV3(d))
         THEN mapValidateOrParseErr(ValidateV3(d), loc)
    ELSE Document(d, loc)

\* the bytes of a raw document as the preprocessor sees them
BytesOf(d) == V2Bytes(d.syntax, d.paths)

\* the bytes convertV2ToV3 is called with
ConvInput(d) == FixedBytes(BytesOf(d))

\* convertV2ToV3 succeeds on those bytes
convertV2ToV3(d, bytes) == IF bytes = BytesOf(d) THEN d.conv ELSE d.convFixed

\* the errors of the steps of a "case 2" branch: convertV2ToV3, for a URL
\* input loader.ResolveRefsIn(v3doc, nil), then v3doc.Validate
StepsV2(d, isURL, loader) ==
    LET ok  == convertV2ToV3(d, ConvInput(d))
        ref == ResolveRef(d, loader, <<>>)
    IN  [NoSteps EXCEPT !.convert = IF ok THEN "ok" ELSE "convert",
                        !.resolve = IF ~ok \/ ~isURL THEN "none"
                                    ELSE IF ref \in {"blocked", "unsupported"} THEN ref
                                    ELSE d.resolve,
                        !.validate = IF ok THEN d.valid ELSE "none"]

\* a "case 2" branch of Load: the preprocessor, convertV2ToV3, then Validate;
\* an error of ResolveRefsIn in between is printed and nothing else
LoadV2(d, loc) ==
    IF ~convertV2ToV3(d, ConvInput(d)) THEN SpecError(ConversionError, loc)
    ELSE IF ~canProceedDespiteValidation(d.valid)
         THEN mapValidateOrParseErr(d.valid, loc)
    ELSE Document(d, loc)

-----------------------------------------------------------------------------
(* fetchWithRetry: the outcomes of one client.Do                            *)

StatusCodes == {200, 299, 300, 404, 429, 499, 500}

Outcomes == {[err |-> TRUE, status |-> 0]}
            \cup {[err |-> FALSE, status |-> c] : c \in StatusCodes}

NoOutcome == [err |-> FALSE, status |-> 0]

\* loader.go:302
IsSuccess(o)   == ~o.err /\ o.status < 300

\* a variant that also retries every client error
IsTransient_Any4xx(o) == o.err \/ o.status >= 400

\* if err == nil && (resp.StatusCode >= 500 || resp.StatusCode == 429); a
\* transport error is retried as well (loader.go:304-316)
IsTransient(o) == o.err \/ o.status >= 500 \/ o.status = 429

\* the loop bound and first delay of fetchWithRetry (loader.go:288-295)
InitialBackoff(s) == IF s.BackoffBase <= 0 THEN FallbackBackoff ELSE s.BackoffBase
Attempts(s)       == IF s.MaxRetries <= 0 THEN 1 ELSE s.MaxRetries

\* a variant that waits the same delay every time
NextBackoff_Constant(b) == b

\* backoff *= 2 (loader.go:324)
NextBackoff(b) == b * 2

\* a variant whose loop runs one more iteration
LoopContinues_OneMore(k, n) == k <= n

\* the loop condition i < attempts, tested after i++ (loader.go:296)
LoopContinues(k, n) == k < n

-----------------------------------------------------------------------------
(* Load, step by step                                                       *)

NoModel == [kind |-> "none"]
NoDoc   == [kind |-> "none"]
NoOpts  == [kind |-> "none"]

Return(r) ==
    /\ result' = r
    /\ pc' = "done"

\* Load up to its first I/O: the empty-input check, the classification of
\* the input, the scheme checks, and for a local path the read of the file
LoadStart ==
    /\ pc = "start"
    /\ LET u == ParseURL(input)
           scheme == ToLower(u.Scheme)
           abs == Abs(input)
       IN  IF TrimSpace(input) = <<>> THEN
               /\ Return(SpecError(InputError, <<>>))
               /\ UNCHANGED <<raw, location, i, attempts, backoff>>
           ELSE IF IsURL(input) THEN
               IF scheme = S_file \/ scheme \notin {S_http, S_https} THEN
                   /\ Return(SpecError(InputError, input))
                   /\ UNCHANGED <<raw, location, i, attempts, backoff>>
               ELSE
                   /\ pc' = "fetch"
                   /\ location' = input
                   /\ i' = 0
                   /\ attempts' = Attempts(settings)
                   /\ backoff' = InitialBackoff(settings)
                   /\ UNCHANGED <<raw, result>>
           ELSE IF abs \notin exists THEN
               /\ Return(SpecError(InputError, abs))
               /\ location' = abs
               /\ UNCHANGED <<raw, i, attempts, backoff>>
           ELSE
               /\ \E d \in RawDocs : raw' = d
               /\ location' = abs
               /\ pc' = "parse"
               /\ UNCHANGED <<result, i, attempts, backoff>>
    /\ UNCHANGED <<input, settings, exists, ctxDone, lastErr, requests, resps, waits,
                   rootGets, rootResp>>
    /\ UNCHANGED <<converted, refReads, steps, builderVars, preVars, cacheVars>>

\* one iteration of the loop of fetchWithRetry up to the select: the request
\* and the classification of its outcome. A cancelled context makes
\* client.Do return an error.
FetchAttempt ==
    /\ pc = "fetch"
    /\ \E o \in Outcomes :
         LET out == IF ctxDone THEN [err |-> TRUE, status |-> 0] ELSE o IN
         /\ requests' = requests + 1
         /\ resps' = Append(resps, out)
         /\ IF IsSuccess(out) THEN
                /\ \E d \in RawDocs : raw' = d
                /\ pc' = "parse"
                /\ UNCHANGED <<lastErr, waits, result>>
            ELSE IF IsTransient(out) THEN
                /\ lastErr' = IF out.err THEN "net" ELSE "transient"
                /\ waits' = Append(waits, backoff)
                /\ pc' = "backoff"
                /\ UNCHANGED <<raw, result>>
            ELSE
                /\ Return(SpecError(NetworkError, input))
                /\ UNCHANGED <<raw, waits, lastErr>>
    /\ UNCHANGED <<input, settings, exists, ctxDone, i, attempts, backoff, location,
                   rootGets, rootResp>>
    /\ UNCHANGED <<converted, refReads, steps, builderVars, preVars, cacheVars>>

\* the timer of the select fires: backoff doubles, i++ and the loop
\* condition is tested; on loop exit fetchWithRetry returns lastErr
BackoffElapsed ==
    /\ pc = "backoff"
    /\ ~ctxDone
    /\ backoff' = NextBackoff(backoff)
    /\ i' = i + 1
    /\ IF LoopContinues(i + 1, attempts)
       THEN pc' = "fetch" /\ UNCHANGED result
       ELSE Return(SpecError(NetworkError, input))
    /\ UNCHANGED <<input, settings, exists, ctxDone, attempts, lastErr, requests,
                   resps, waits, raw, location, rootGets, rootResp>>
    /\ UNCHANGED <<converted, refReads, steps, builderVars, preVars, cacheVars>>

\* a variant whose select ignores ctx.Done() and sleeps the delay out
BackoffCancelled_TimerWins ==
    /\ pc = "backoff"
    /\ ctxDone
    /\ backoff' = NextBackoff(backoff)
    /\ i' = i + 1
    /\ IF LoopContinues(i + 1, attempts)
       THEN pc' = "fetch" /\ UNCHANGED result
       ELSE Return(SpecError(NetworkError, input))
    /\ UNCHANGED <<input, settings, exists, ctxDone, attempts, lastErr, requests,
                   resps, waits, raw, location, rootGets, rootResp>>
    /\ UNCHANGED <<converted, refReads, steps, builderVars, preVars, cacheVars>>

\* the select sees ctx.Done(): fetchWithRetry returns ctx.Err()
BackoffCancelled ==
    /\ pc = "backoff"
    /\ ctxDone
    /\ lastErr' = "ctx"
    /\ Return(SpecError(NetworkError, input))
    /\ UNCHANGED <<input, settings, exists, ctxDone, i, attempts, backoff, requests,
                   resps, waits, raw, location, rootGets, rootResp>>
    /\ UNCHANGED <<converted, refReads, steps, builderVars, preVars, cacheVars>>

\* the caller cancels the context while the fetch is under way
Cancel ==
    /\ pc \in {"fetch", "backoff"}
    /\ ~ctxDone
    /\ ctxDone' = TRUE
    /\ UNCHANGED <<input, settings, exists, pc, i, attempts, backoff, lastErr,
                   requests, resps, waits, raw, location, rootGets, rootResp, result>>
    /\ UNCHANGED <<converted, refReads, steps, builderVars, preVars, cacheVars>>

\* detectSpecVersion on the bytes read or fetched and the switch on it; for a
\* local file the whole branch, for a URL the v2 branch and the start of the
\* v3 branch
LoadParse ==
    /\ pc = "parse"
    /\ LET version == detectSpecVersion(raw) IN
       IF version = 0 THEN
           /\ Return(SpecError(ParseError, location))
           /\ UNCHANGED <<converted, refReads, steps>>
       ELSE IF version = 2 THEN
           /\ converted' = ConvInput(raw)
           /\ refReads' = IF IsURL(input) /\ convertV2ToV3(raw, ConvInput(raw))
                           THEN RefsRead(raw, newLoader(settings, FALSE), <<>>)
                           ELSE {}
           /\ steps' = StepsV2(raw, IsURL(input), newLoader(settings, FALSE))
           /\ Return(LoadV2(raw, location))
       ELSE IF IsURL(input) THEN
           /\ pc' = "root"
           /\ UNCHANGED <<converted, refReads, steps, result>>
       ELSE
           /\ refReads' = RefsRead(raw, newLoader(settings, TRUE), location)
           /\ steps' = StepsV3(raw, location, newLoader(settings, TRUE))
           /\ Return(LoadV3(raw, location, newLoader(settings, TRUE)))
           /\ UNCHANGED converted
    /\ UNCHANGED <<input, settings, exists, ctxDone, i, attempts, backoff, lastErr,
                   requests, resps, waits, raw, location, rootGets, rootResp>>
    /\ UNCHANGED <<builderVars, preVars, cacheVars>>

\* loader.LoadFromURI(u) for a URL input: ReadFromURIFunc issues its own GET
\* of the root URL (no retry), then the document it got is parsed and validated
LoadFromURI ==
    /\ pc = "root"
    /\ rootGets' = rootGets + 1
    /\ \E o \in Outcomes :
          /\ rootResp' = o
          /\ IF o.err \/ o.status >= 400
             THEN /\ Return(mapValidateOrParseErr("get", input))
                  /\ steps' = [NoSteps EXCEPT !.load = "get"]
                  /\ UNCHANGED <<raw, refReads>>
             ELSE \E d \in RawDocs :
                     /\ raw' = d
                     /\ refReads' = RefsRead(d, newLoader(settings, FALSE), input)
                     /\ steps' = StepsV3(d, input, newLoader(settings, FALSE))
                     /\ Return(LoadV3(d, input, newLoader(settings, FALSE)))
    /\ UNCHANGED <<input, settings, exists, ctxDone, i, attempts, backoff, lastErr,
                   requests, resps, waits, location>>
    /\ UNCHANGED <<converted, builderVars, preVars, cacheVars>>

InitLoad ==
    /\ CacheIdle
    /\ input \in Inputs
    /\ settings \in (IF IsHTTPInput(input) THEN SettingsSet ELSE {DefaultSettings})
    /\ exists \in SUBSET FsPaths(input)
    /\ ctxDone \in (IF IsHTTPInput(input) THEN BOOLEAN ELSE {FALSE})
    /\ pc = "start"
    /\ i = 0
    /\ attempts = 0
    /\ backoff = 0
    /\ lastErr = "none"
    /\ requests = 0
    /\ resps = <<>>
    /\ waits = <<>>
    /\ raw = NoRaw
    /\ location = <<>>
    /\ rootGets = 0
    /\ rootResp = NoOutcome
    /\ converted = NoBytes
    /\ refReads = {}
    /\ steps = NoSteps
    /\ result = NoResult
    /\ v2in = NoBytes
    /\ v2out = NoOutput
    /\ doc = NoDoc
    /\ opts = NoOpts
    /\ sm = NoModel
    /\ sm2 = NoModel

NextLoad ==
    \/ LoadStart
    \/ FetchAttempt
    \/ BackoffElapsed
    \/ BackoffCancelled
    \/ Cancel
    \/ LoadParse
    \/ LoadFromURI

SpecLoad == InitLoad /\ [][NextLoad]_vars

\* Load runs on the caller's goroutine and nothing in it blocks for ever:
\* client.Do is bounded by the client's Timeout (loader.go:286) and the select
\* by its timer, so every step of Load that can be taken is taken. Nothing
\* obliges the caller to cancel.
LoadStep ==
    \/ LoadStart
    \/ FetchAttempt
    \/ BackoffElapsed
    \/ BackoffCancelled
    \/ LoadParse
    \/ LoadFromURI

\* the loads of one http URL with the default delay, every retry budget and
\* a context that is or is not cancelled from the start
InitFetch ==
    /\ InitLoad
    /\ input = <<104, 116, 116, 112, 58, 47, 47, 104, 47, 115>>
    /\ settings.BackoffBase = DefaultBackoffBase

SpecFetchFair == InitFetch /\ [][NextLoad]_vars /\ WF_vars(LoadStep)

-----------------------------------------------------------------------------
(* Sorting and map iteration                                                *)

\* insertion of x into a sorted sequence, after the elements equal to it
RECURSIVE InsertStr(_, _)
InsertStr(x, s) ==
    IF s = <<>> THEN <<x>>
    ELSE IF StrLess(x, Head(s)) THEN <<x>> \o s
    ELSE <<Head(s)>> \o InsertStr(x, Tail(s))

\* sort.Strings
RECURSIVE SortStrings(_)
SortStrings(s) ==
    IF s = <<>> THEN <<>>
    ELSE InsertStr(s[Len(s)], SortStrings(SubSeq(s, 1, Len(s) - 1)))

\* the elements of a finite set of strings as a sequence (an enumeration to
\* pick iteration orders from; the code never relies on it)
RECURSIVE Enumerate(_)
Enumerate(S) ==
    IF S = {} THEN <<>>
    ELSE LET x == CHOOSE y \in S : \A z \in S \ {y} : StrLess(y, z)
         IN  <<x>> \o Enumerate(S \ {x})

RemoveAt(s, k) == SubSeq(s, 1, k - 1) \o SubSeq(s, k + 1, Len(s))

\* the h-th rearrangement of a sequence
RECURSIVE Permute(_, _)
Permute(s, h) ==
    IF s = <<>> THEN <<>>
    ELSE LET k == (h % Len(s)) + 1
         IN  <<s[k]>> \o Permute(RemoveAt(s, k), h \div Len(s))

\* the order in which one "for k := range m" visits the keys S of a Go map:
\* unspecified; the seed h picks it
MaxSeed == 5
Seeds == 0..MaxSeed
MapKeys(S, h) == Permute(Enumerate(S), h)

Range(s) == {s[k] : k \in 1..Len(s)}

-----------------------------------------------------------------------------
(* The v3 document and the internal model                                   *)

\* the stable order in which BuildServiceModel visits the operations of a path
MethodOrder == <<GET, POST, PUT, DELETE, PATCH, HEAD, OPTIONS, TRACE>>
Methods == Range(MethodOrder)

\* *openapi3.SchemaRef
SR_Nil         == [kind |-> "nil"]
SR_Ref(r)      == [kind |-> "ref", Ref |-> r]
SR_NoValue     == [kind |-> "novalue"]
SR_Val(t, f, props, items) ==
    [kind |-> "val", Type |-> t, Format |-> f, Properties |-> props, Items |-> items]

\* *SchemaOrRef of the internal model
SOR_Nil    == [kind |-> "nil"]
SOR_Ref(r) == [kind |-> "ref", Ref |-> r]
SOR_Schema(name, t, f, props, items) ==
    [kind |-> "schema", Name |-> name, Type |-> t, Format |-> f,
     Properties |-> props, Items |-> items]

S_object == <<111, 98, 106, 101, 99, 116>>     \* "object"

\* strings.TrimSpace, applied to every string the model copies
safeStr(s) == TrimSpace(s)

RECURSIVE toSchemaOrRef(_)
toSchemaOrRef(ref) ==
    IF ref.kind = "nil" THEN SOR_Nil
    ELSE IF ref.kind = "ref" THEN SOR_Ref(ref.Ref)
    ELSE IF ref.kind = "novalue" THEN SOR_Schema(<<>>, S_object, <<>>, <<>>, SOR_Nil)
    ELSE SOR_Schema(<<>>, safeStr(ref.Type), safeStr(ref.Format),
                    [n \in DOMAIN ref.Properties |-> toSchemaOrRef(ref.Properties[n])],
                    toSchemaOrRef(ref.Items))

\* *openapi3.ParameterRef: Value = FALSE stands for a nil ref or a nil Value
ParamRef(in, name, required, schema) ==
    [Value |-> TRUE, In |-> in, Name |-> name, Required |-> required, Schema |-> schema]
NilParamRef ==
    [Value |-> FALSE, In |-> <<>>, Name |-> <<>>, Required |-> FALSE, Schema |-> SR_Nil]

\* toParameterModel, for a ref with a Value
toParameterModel(pref) ==
    [Name |-> safeStr(pref.Name), In |-> safeStr(pref.In),
     Required |-> pref.Required, Schema |-> toSchemaOrRef(pref.Schema)]

paramKey(in, name) == in \o <<58>> \o name

\* baseParams / mergedParams after "m[paramKey(pm.In, pm.Name)] = pm" for
\* every parameter of the list that has a Value, in list order
RECURSIVE PutParams(_, _)
PutParams(m, prefs) ==
    IF prefs = <<>> THEN m
    ELSE LET pref == Head(prefs) IN
         IF ~pref.Value THEN PutParams(m, Tail(prefs))
         ELSE LET pm == toParameterModel(pref)
                  k  == paramKey(pm.In, pm.Name)
              IN  PutParams([x \in DOMAIN m \cup {k} |-> IF x = k THEN pm ELSE m[x]],
                            Tail(prefs))

\* the order function of the sort.Slice call on the merged parameters
ParamLess(a, b) ==
    IF a.In = b.In THEN StrLess(a.Name, b.Name) ELSE StrLess(a.In, b.In)

RECURSIVE InsertParam(_, _)
InsertParam(x, s) ==
    IF s = <<>> THEN <<x>>
    ELSE IF ParamLess(x, Head(s)) THEN <<x>> \o s
    ELSE <<Head(s)>> \o InsertParam(x, Tail(s))

RECURSIVE SortParams(_)
SortParams(s) ==
    IF s = <<>> THEN <<>>
    ELSE InsertParam(s[Len(s)], SortParams(SubSeq(s, 1, Len(s) - 1)))

\* a variant that leaves the parameters in map order
MaterializeParams_Unsorted(merged, h) ==
    LET keys == MapKeys(DOMAIN merged, h)
    IN  [k \in 1..Len(keys) |-> merged[keys[k]]]

\* "Materialize and sort parameters": the values of the merged map in map
\* iteration order, then sorted by (In, Name)
MaterializeParams(merged, h) ==
    LET keys == MapKeys(DOMAIN merged, h)
    IN  SortParams([k \in 1..Len(keys) |-> merged[keys[k]]])

\* a variant in which the path-level parameter wins a collision
MergeParams_PathWins(item, op, h) ==
    MaterializeParams(PutParams(PutParams(<<>>, op.Parameters), item.Parameters), h)

\* the merged parameters of one operation
MergeParams(item, op, h) ==
    MaterializeParams(PutParams(PutParams(<<>>, item.Parameters), op.Parameters), h)

\* openapi3.Content: a map from mime type to *MediaType; a media type has a
\* Schema, an Example (SomeExample or NoExample) and named Examples
NoExample == [kind |-> "none", v |-> <<>>]
Example(v) == [kind |-> "ex", v |-> v]
MediaType(schema, example, examples) ==
    [Schema |-> schema, Example |-> example, Examples |-> examples]

\* toMediaList: one Media per mime type, in sorted mime order; the example
\* is Example or else the value of the first of Examples by name
toMediaList(content, h) ==
    LET keys == SortStrings(MapKeys(DOMAIN content, h))
        ex(mt) == IF mt.Example.kind # "none" THEN mt.Example
                  ELSE IF DOMAIN mt.Examples # {}
                       THEN mt.Examples[SortStrings(MapKeys(DOMAIN mt.Examples, h))[1]]
                       ELSE NoExample
    IN  [k \in 1..Len(keys) |->
            [Mime |-> keys[k],
             Schema |-> toSchemaOrRef(content[keys[k]].Schema),
             Example |-> ex(content[keys[k]])]]

S_definitions == <<35, 47, 100, 101, 102, 105, 110, 105, 116, 105, 111, 110, 115, 47>>     \* "#/definitions/"
S_components  == <<35, 47, 99, 111, 109, 112, 111, 110, 101, 110, 116, 115, 47, 115, 99, 104, 101, 109, 97, 115, 47>>     \* "#/components/schemas/"

\* strings.Replace(s, old, "", 1)
RemoveFirst(s, old) ==
    LET at == {k \in 1..(Len(s) - Len(old) + 1) : SubSeq(s, k, k + Len(old) - 1) = old}
    IN  IF at = {} THEN s
        ELSE LET k == CHOOSE x \in at : \A y \in at : x <= y
             IN  SubSeq(s, 1, k - 1) \o SubSeq(s, k + Len(old), Len(s))

\* findBodyParameter: the first parameter of the cached operation that is a
\* map whose "in" is the string "body"; Absent stands for nil
findBodyParameter(operation) ==
    IF operation.kind # "map" \/ operation.parameters.kind # "list" THEN Absent
    ELSE LET ps == operation.parameters.items
             at == {k \in 1..Len(ps) :
                       ps[k].kind = "map" /\ ps[k].in = StrVal(V2Str.body)}
         IN  IF at = {} THEN Absent
             ELSE ps[CHOOSE x \in at : \A y \in at : x <= y]

\* the body parameter toMediaListWithV2Cache arrives at for the first media
\* item of res, Absent when it returns before (v2compat.go:921-939)
cachedBodyParam(res, v2Operations, path, method) ==
    IF Len(res) = 0 THEN Absent
    ELSE IF res[1].Schema.kind # "schema" THEN Absent
    ELSE IF res[1].Schema.Type # S_object
            \/ DOMAIN res[1].Schema.Properties # {} THEN Absent
    ELSE IF path \notin DOMAIN v2Operations.entries THEN Absent
    ELSE IF ToLower(method) \notin DOMAIN v2Operations.entries[path] THEN Absent
    ELSE IF ToLower(method) = GET THEN Absent
    ELSE findBodyParameter(v2Operations.entries[path][ToLower(method)])

\* bodyParam["schema"].(map[string]any) without the comma-ok form panics on
\* a schema that is neither nil nor a map (v2compat.go:942)
assertionPanics(content, v2Operations, path, method, h) ==
    LET bodyParam == cachedBodyParam(toMediaList(content, h), v2Operations, path, method)
    IN  bodyParam.kind = "map" /\ bodyParam.schema.kind \notin {"absent", "map"}

\* a variant that looks at the cached operation of a GET as well
toMediaListWithV2Cache_AlsoGet(content, v2Operations, path, method, h) ==
    LET res == toMediaList(content, h)
        op == IF path \in DOMAIN v2Operations.entries
                 /\ ToLower(method) \in DOMAIN v2Operations.entries[path]
              THEN v2Operations.entries[path][ToLower(method)] ELSE Absent
        bodyParam == IF Len(res) > 0 /\ res[1].Schema.kind = "schema"
                        /\ res[1].Schema.Type = S_object
                        /\ DOMAIN res[1].Schema.Properties = {}
                     THEN findBodyParameter(op)
                     ELSE Absent
    IN  IF bodyParam.kind = "map" /\ bodyParam.schema.kind = "map"
           /\ bodyParam.schema.ref.kind = "str"
        THEN [res EXCEPT ![1].Schema =
                 SOR_Ref(S_components \o RemoveFirst(bodyParam.schema.ref.s, S_definitions))]
        ELSE res

\* toMediaListWithV2Cache, when the type assertion does not panic: the
\* schema of the first media item replaced by the converted reference of the
\* cached body parameter
toMediaListWithV2Cache(content, v2Operations, path, method, h) ==
    LET res == toMediaList(content, h)
        bodyParam == cachedBodyParam(res, v2Operations, path, method)
    IN  IF bodyParam.kind = "map" /\ bodyParam.schema.kind = "map"
           /\ bodyParam.schema.ref.kind = "str"
        THEN [res EXCEPT ![1].Schema =
                 SOR_Ref(S_components \o RemoveFirst(bodyParam.schema.ref.s, S_definitions))]
        ELSE res

\* v2Ops := getV2Operations(doc) and the choice between the two conversions
\* (v2compat.go:541-547, 569-575)
contentOf(content, v2Ops, p, m, h) ==
    IF v2Ops.kind = "map" THEN toMediaListWithV2Cache(content, v2Ops, p, m, h)
    ELSE toMediaList(content, h)

\* *openapi3.ResponseRef: Value = FALSE stands for a nil ref or a nil Value
ResponseRef(desc, content) == [Value |-> TRUE, Description |-> desc, Content |-> content]
NilResponseRef             == [Value |-> FALSE, Description |-> <<>>, Content |-> <<>>]

\* the Responses of one operation: the status codes in sorted order, refs
\* without a Value skipped
RECURSIVE ResponseModels(_, _, _, _, _, _)
ResponseModels(responses, codes, v2Ops, p, m, h) ==
    IF codes = <<>> THEN <<>>
    ELSE LET code == Head(codes)
             rref == responses[code]
         IN  (IF ~rref.Value THEN <<>>
              ELSE <<[Status |-> code, Description |-> rref.Description,
                      Content |-> contentOf(rref.Content, v2Ops, p, m, h)]>>)
             \o ResponseModels(responses, Tail(codes), v2Ops, p, m, h)

toResponses(responses, v2Ops, p, m, h) ==
    ResponseModels(responses, SortStrings(MapKeys(DOMAIN responses, h)), v2Ops, p, m, h)

\* *openapi3.RequestBodyRef -> *RequestBodyModel
NoRequestBody == [kind |-> "nil", Required |-> FALSE, Content |-> <<>>]
RequestBody(required, content) ==
    [kind |-> "body", Required |-> required, Content |-> content]

toRequestBody(rb, v2Ops, p, m, h) ==
    IF rb.kind = "nil" THEN NoRequestBody
    ELSE [kind |-> "body", Required |-> rb.Required,
          Content |-> contentOf(rb.Content, v2Ops, p, m, h)]

\* *openapi3.Operation
NoOperation ==
    [kind |-> "nil", Tags |-> <<>>, Parameters |-> <<>>, RequestBody |-> NoRequestBody,
     Responses |-> <<>>]
Operation(tags, params, rb, responses) ==
    [kind |-> "op", Tags |-> tags, Parameters |-> params, RequestBody |-> rb,
     Responses |-> responses]

\* the tags of an operation as BuildServiceModel keeps them: trimmed, the
\* empty ones dropped, in the order written
RECURSIVE trimTags(_)
trimTags(tags) ==
    IF tags = <<>> THEN <<>>
    ELSE (IF TrimSpace(Head(tags)) # <<>> THEN <<TrimSpace(Head(tags))>> ELSE <<>>)
         \o trimTags(Tail(tags))

-----------------------------------------------------------------------------
(* Build options                                                            *)

\* a path pattern as handed to WithPathPatterns: blank, a source that does
\* not compile, or the regular expression [^]lit[$]
Pattern(blank, valid, anchorStart, anchorEnd, lit) ==
    [blank |-> blank, valid |-> valid, anchorStart |-> anchorStart,
     anchorEnd |-> anchorEnd, lit |-> lit]

\* a variant whose stand-in for an invalid pattern matches every path
Compile_InvalidMatchesAll(p) ==
    [never |-> FALSE, anchorStart |-> p.valid /\ p.anchorStart,
     anchorEnd |-> p.valid /\ p.anchorEnd, lit |-> IF p.valid THEN p.lit ELSE <<>>]

\* regexp.Compile, or the sentinel "a^$" that matches nothing
Compile(p) ==
    IF p.valid THEN [never |-> FALSE, anchorStart |-> p.anchorStart,
                     anchorEnd |-> p.anchorEnd, lit |-> p.lit]
    ELSE [never |-> TRUE, anchorStart |-> FALSE, anchorEnd |-> FALSE, lit |-> <<>>]

\* re.MatchString(s)
MatchString(re, s) ==
    /\ ~re.never
    /\ \E k \in 1..(Len(s) - Len(re.lit) + 1) :
          /\ SubSeq(s, k, k + Len(re.lit) - 1) = re.lit
          /\ re.anchorStart => k = 1
          /\ re.anchorEnd => k + Len(re.lit) - 1 = Len(s)

RECURSIVE compilePatterns(_)
compilePatterns(ps) ==
    IF ps = <<>> THEN <<>>
    ELSE (IF Head(ps).blank THEN <<>> ELSE <<Compile(Head(ps))>>)
         \o compilePatterns(Tail(ps))

\* the set WithIncludeTags / WithExcludeTags leave in the config
tagSet(tags) == {TrimSpace(t) : t \in Range(tags)} \ {<<>>}

\* buildConfig after the options were applied
buildConfig(o) ==
    [includeTags |-> tagSet(o.includeTags),
     excludeTags |-> tagSet(o.excludeTags),
     methods     |-> Range(o.methods),
     pathRes     |-> compilePatterns(o.pathPatterns)]

\* a variant in which a matching include tag overrides the exclude set
allowByTags_IncludeWins(tags, cfg) ==
    IF cfg.includeTags # {} /\ (\E k \in 1..Len(tags) : tags[k] \in cfg.includeTags)
    THEN TRUE
    ELSE /\ cfg.includeTags = {}
         /\ (cfg.excludeTags # {}) => ~(\E k \in 1..Len(tags) : tags[k] \in cfg.excludeTags)

\* allowByTags: the include set first, then the exclude set
allowByTags(tags, cfg) ==
    /\ (cfg.includeTags # {}) => (\E k \in 1..Len(tags) : tags[k] \in cfg.includeTags)
    /\ (cfg.excludeTags # {}) => ~(\E k \in 1..Len(tags) : tags[k] \in cfg.excludeTags)

\* the method filter
allowByMethod(m, cfg) == (cfg.methods # {}) => (m \in cfg.methods)

\* the path pattern filter
allowByPath(p, cfg) ==
    (Len(cfg.pathRes) > 0) => (\E k \in 1..Len(cfg.pathRes) : MatchString(cfg.pathRes[k], p))

-----------------------------------------------------------------------------
(* BuildServiceModel                                                        *)

\* a variant that names an endpoint by its path alone
EndpointOf_IDIsPath(v2Ops, item, p, m, op, h) ==
    [ID          |-> p,
     Method      |-> m,
     Path        |-> p,
     Tags        |-> trimTags(op.Tags),
     Parameters  |-> MergeParams(item, op, h),
     RequestBody |-> toRequestBody(op.RequestBody, v2Ops, p, m, h),
     Responses   |-> toResponses(op.Responses, v2Ops, p, m, h)]

\* the endpoint of operation op of path p under method m
EndpointOf(v2Ops, item, p, m, op, h) ==
    [ID          |-> m \o <<32>> \o p,
     Method      |-> m,
     Path        |-> p,
     Tags        |-> trimTags(op.Tags),
     Parameters  |-> MergeParams(item, op, h),
     RequestBody |-> toRequestBody(op.RequestBody, v2Ops, p, m, h),
     Responses   |-> toResponses(op.Responses, v2Ops, p, m, h)]

\* a variant that leaves an endpoint only the tags of the include set
RECURSIVE EndpointsOfItem_TagsNarrowed(_, _, _, _, _, _)
EndpointsOfItem_TagsNarrowed(v2Ops, item, p, ms, cfg, h) ==
    IF ms = <<>> THEN <<>>
    ELSE LET m  == Head(ms)
             op == item.ops[m]
             keep == /\ op.kind # "nil"
                     /\ allowByMethod(m, cfg)
                     /\ allowByPath(p, cfg)
                     /\ allowByTags(trimTags(op.Tags), cfg)
             ep == EndpointOf(v2Ops, item, p, m, op, h)
         IN  (IF keep
              THEN <<[ep EXCEPT !.Tags =
                         IF cfg.includeTags = {} THEN @
                         ELSE SelectSeq(@, LAMBDA t : t \in cfg.includeTags)]>>
              ELSE <<>>)
             \o EndpointsOfItem_TagsNarrowed(v2Ops, item, p, Tail(ms), cfg, h)

\* the endpoints of one path item: its operations in MethodOrder, filtered
RECURSIVE EndpointsOfItem(_, _, _, _, _, _)
EndpointsOfItem(v2Ops, item, p, ms, cfg, h) ==
    IF ms = <<>> THEN <<>>
    ELSE LET m  == Head(ms)
             op == item.ops[m]
             keep == /\ op.kind # "nil"
                     /\ allowByMethod(m, cfg)
                     /\ allowByPath(p, cfg)
                     /\ allowByTags(trimTags(op.Tags), cfg)
         IN  (IF keep THEN <<EndpointOf(v2Ops, item, p, m, op, h)>> ELSE <<>>)
             \o EndpointsOfItem(v2Ops, item, p, Tail(ms), cfg, h)

\* a variant that visits the paths in map order
PathKeys_Unsorted(d, h) == MapKeys(DOMAIN d.paths, h)

\* the order in which the paths are visited: the keys, then sort.Strings
PathKeys(d, h) == SortStrings(MapKeys(DOMAIN d.paths, h))

RECURSIVE EndpointsOfPaths(_, _, _, _)
EndpointsOfPaths(d, ps, cfg, h) ==
    IF ps = <<>> THEN <<>>
    ELSE (IF d.paths[Head(ps)].kind = "nil" THEN <<>>
          ELSE EndpointsOfItem(d.v2ops, d.paths[Head(ps)], Head(ps), MethodOrder, cfg, h))
         \o EndpointsOfPaths(d, Tail(ps), cfg, h)

\* collectSortedTags
collectSortedTags(endpoints, h) ==
    LET set == {t \in UNION {{TrimSpace(ep.Tags[k]) : k \in 1..Len(ep.Tags)} :
                             ep \in Range(endpoints)} : t # <<>>}
    IN  SortStrings(MapKeys(set, h))

\* toSchemaOrRefFromV2: a v2 schema definition as a SchemaOrRef; nil for a
\* value that is no map. The strings are copied as they are.
RECURSIVE toSchemaOrRefFromV2(_, _)
toSchemaOrRefFromV2(v2Schema, name) ==
    IF v2Schema.kind # "map" THEN SOR_Nil
    ELSE IF v2Schema.ref.kind = "str" THEN
        SOR_Ref(IF HasPrefix(v2Schema.ref.s, S_definitions)
                THEN S_components \o SubSeq(v2Schema.ref.s, Len(S_definitions) + 1,
                                            Len(v2Schema.ref.s))
                ELSE v2Schema.ref.s)
    ELSE LET props == IF v2Schema.properties.kind = "map"
                      THEN v2Schema.properties.entries ELSE <<>>
             kept  == {n \in DOMAIN props : toSchemaOrRefFromV2(props[n], <<>>).kind # "nil"}
         IN  SOR_Schema(name, AsString(v2Schema.type), AsString(v2Schema.format),
                        [n \in kept |-> toSchemaOrRefFromV2(props[n], <<>>)],
                        toSchemaOrRefFromV2(v2Schema.items, <<>>))

\* a variant that never looks at the v2 definitions
schemaTable_V3Only(d) ==
    LET names == {n \in DOMAIN d.schemas : d.schemas[n].kind # "nil"}
    IN  [n \in names |->
            LET sor == toSchemaOrRef(d.schemas[n])
            IN  IF sor.kind = "ref" THEN SOR_Schema(n, <<>>, <<>>, <<>>, SOR_Nil)
                ELSE [sor EXCEPT !.Name = n]]

\* the Schemas table: one entry per component schema that is not nil, made
\* from the v2 definition of the same name when that converts, else from the
\* v3 schema (v2compat.go:398-449)
schemaTable(d) ==
    LET names == {n \in DOMAIN d.schemas : d.schemas[n].kind # "nil"}
        fromV2(n) == IF d.v2defs.kind = "map" /\ n \in DOMAIN d.v2defs.entries
                     THEN toSchemaOrRefFromV2(d.v2defs.entries[n], n)
                     ELSE SOR_Nil
    IN  [n \in names |->
            LET sor == IF fromV2(n).kind # "nil" THEN fromV2(n)
                       ELSE toSchemaOrRef(d.schemas[n])
            IN  IF sor.kind = "ref" THEN SOR_Schema(n, <<>>, <<>>, <<>>, SOR_Nil)
                ELSE [sor EXCEPT !.Name = n]]

\* *openapi3.Server, and a nil entry of doc.Servers
Server(url, description) == [kind |-> "server", URL |-> url, Description |-> description]
NilServer                == [kind |-> "nil", URL |-> <<>>, Description |-> <<>>]

\* the Servers of the model: the nil entries skipped (v2compat.go:388-396)
RECURSIVE toServers(_)
toServers(servers) ==
    IF servers = <<>> THEN <<>>
    ELSE (IF Head(servers).kind = "nil" THEN <<>>
          ELSE <<[URL |-> safeStr(Head(servers).URL),
                  Description |-> safeStr(Head(servers).Description)]>>)
         \o toServers(Tail(servers))

\* the run panics: doc.Info is dereferenced unguarded (v2compat.go:382-386),
\* and the content of every operation that passes the method and path
\* filters goes through toMediaListWithV2Cache when the document has cached
\* operations (v2compat.go:536-575)
buildPanics(d, cfg, h) ==
    \/ ~d.info
    \/ /\ d.v2ops.kind = "map"
       /\ \E p \in DOMAIN d.paths : \E m \in Methods :
             LET op == d.paths[p].ops[m] IN
             /\ d.paths[p].kind # "nil"
             /\ op.kind # "nil"
             /\ allowByMethod(m, cfg)
             /\ allowByPath(p, cfg)
             /\ \/ /\ op.RequestBody.kind = "body"
                   /\ assertionPanics(op.RequestBody.Content, d.v2ops, p, m, h)
                \/ \E code \in DOMAIN op.Responses :
                      /\ op.Responses[code].Value
                      /\ assertionPanics(op.Responses[code].Content, d.v2ops, p, m, h)

\* a run-time panic: BuildServiceModel does not return
Panic == [kind |-> "panic"]

\* a variant that collects the tags of every operation of the document
BuildServiceModel_TagsOfAll(d, o, h) ==
    LET cfg == buildConfig(o)
        eps == EndpointsOfPaths(d, PathKeys(d, h), cfg, h)
        all == EndpointsOfPaths(d, PathKeys(d, h), [includeTags |-> {}, excludeTags |-> {}, methods |-> {}, pathRes |-> <<>>], h)
    IN  IF d.kind = "nil" THEN [kind |-> "error"]
        ELSE IF buildPanics(d, cfg, h) THEN Panic ELSE
        [kind        |-> "model",
         Title       |-> safeStr(d.title),
         Version     |-> safeStr(d.version),
         Description |-> safeStr(d.description),
         Servers     |-> toServers(d.servers),
         Schemas     |-> schemaTable(d),
         Endpoints   |-> eps,
         Tags        |-> collectSortedTags(all, h)]

\* fmt.Errorf("nil document"): an error that is no *SpecError
PlainError == [kind |-> "error"]

\* BuildServiceModel(ctx, doc, nil, opts...); h stands for the iteration
\* orders of the Go maps the run ranges over
BuildServiceModel(d, o, h) ==
    LET cfg == buildConfig(o)
        eps == EndpointsOfPaths(d, PathKeys(d, h), cfg, h)
    IN  IF d.kind = "nil" THEN PlainError
        ELSE IF buildPanics(d, cfg, h) THEN Panic ELSE
        [kind        |-> "model",
         Title       |-> safeStr(d.title),
         Version     |-> safeStr(d.version),
         Description |-> safeStr(d.description),
         Servers     |-> toServers(d.servers),
         Schemas     |-> schemaTable(d),
         Endpoints   |-> eps,
         Tags        |-> collectSortedTags(eps, h)]

-----------------------------------------------------------------------------
(* The documents and options the builder is run on                          *)

MaxParams == 2

SeqsUpTo(S, n) == UNION {[1..k -> S] : k \in 0..n}

\* the strings the documents and options are made of
Lit ==
    [P_ac      |-> <<47, 97, 47, 99>>,                    \* "/a/c"
     P_b       |-> <<47, 98>>,                            \* "/b"
     T_r       |-> <<114>>,                               \* "r"
     T_a       |-> <<97>>,                                \* "a"
     T_r_sp    |-> <<32, 114, 32>>,                       \* " r "
     T_sp      |-> <<32>>,                                \* " "
     S_query   |-> <<113, 117, 101, 114, 121>>,           \* "query"
     S_path    |-> <<112, 97, 116, 104>>,                 \* "path"
     S_integer |-> <<105, 110, 116>>,                     \* "int"
     N_a       |-> <<97>>,                                \* "a"
     N_b       |-> <<98>>,                                \* "b"
     N_b_sp    |-> <<32, 98>>,                            \* " b"
     C_200     |-> <<50, 48, 48>>,                        \* "200"
     C_404     |-> <<52, 48, 52>>,                        \* "404"
     C_default |-> <<100, 101, 102, 97, 117, 108, 116>>,  \* "default"
     M_json    |-> <<97, 47, 106>>,                       \* "a/j"
     M_xml     |-> <<97, 47, 120>>,                       \* "a/x"
     R_Pet     |-> <<35, 47, 80>>]                        \* "#/P", a reference to a component schema

IntSchema == SR_Val(Lit.S_integer, <<>>, <<>>, SR_Nil)
PetSchema == SR_Val(<<32>> \o S_object, <<>>,
                    [n \in {Lit.N_a, Lit.N_b} |-> IF n = Lit.N_a THEN IntSchema ELSE SR_Ref(Lit.R_Pet)],
                    SR_Nil)
ListSchema == SR_Val(<<97, 114, 114>>, <<>>, <<>>, SR_Ref(Lit.R_Pet))      \* "arr" of Pet

SampleSchemas ==
    [n \in {<<80>>, <<65>>, <<69>>, <<78>>, <<76>>} |->
        CASE n = <<80>> -> PetSchema            \* "P": a concrete object
          [] n = <<65>> -> SR_Ref(Lit.R_Pet)        \* "A": a $ref
          [] n = <<69>> -> SR_NoValue           \* "E": neither Ref nor Value
          [] n = <<78>> -> SR_Nil               \* "N": a nil entry
          [] OTHER      -> ListSchema]          \* "L": an array

JsonXmlContent ==
    [m \in {Lit.M_json, Lit.M_xml} |->
        IF m = Lit.M_json
        THEN MediaType(SR_Ref(Lit.R_Pet), NoExample,
                       [e \in {Lit.N_a, Lit.N_b} |-> Example(e)])
        ELSE MediaType(ListSchema, Example(Lit.N_b), <<>>)]

OkResponse      == ResponseRef(<<111, 107>>, JsonXmlContent)      \* "ok"
DefaultResponse == ResponseRef(<<>>, <<>>)

ResponsesOf(codes) ==
    [c \in codes |-> CASE c = Lit.C_200 -> OkResponse
                       [] c = Lit.C_404 -> NilResponseRef
                       [] OTHER     -> DefaultResponse]

PlainResponses == ResponsesOf({Lit.C_default, Lit.C_200})

OpsOf(get, post, delete) ==
    [m \in Methods |-> CASE m = GET    -> get
                         [] m = POST   -> post
                         [] m = DELETE -> delete
                         [] OTHER      -> NoOperation]

PathItem(params, ops) == [kind |-> "item", Parameters |-> params, ops |-> ops]
NilPathItem           == [kind |-> "nil", Parameters |-> <<>>,
                          ops |-> OpsOf(NoOperation, NoOperation, NoOperation)]

\* a *openapi3.T with an info section. v2defs and v2ops: the v2 definitions
\* and operations the store keeps for the document, absent for a document
\* that was not converted
Doc(title, schemas, paths) ==
    [kind |-> "doc", info |-> TRUE, title |-> title, version |-> <<>>,
     description |-> <<>>, servers |-> <<>>, schemas |-> schemas, paths |-> paths,
     v2defs |-> Absent, v2ops |-> Absent]

\* a nil *openapi3.T
NilDoc == [Doc(<<>>, <<>>, <<>>) EXCEPT !.kind = "nil"]

SampleTitle == <<32, 83, 32>>       \* " S "

\* ---- documents whose endpoints differ in path, method and tags
TaggedOp(t) == Operation(t, <<>>, NoRequestBody, PlainResponses)

GetOps    == {NoOperation, TaggedOp(<<>>), TaggedOp(<<Lit.T_r>>), TaggedOp(<<Lit.T_r_sp, Lit.T_a>>),
              TaggedOp(<<Lit.T_sp, Lit.T_a, Lit.T_a>>)}
DeleteOps == {NoOperation, TaggedOp(<<Lit.T_a>>), TaggedOp(<<Lit.T_r>>)}

TaggedItems == {PathItem(<<>>, OpsOf(g, NoOperation, d)) : g \in GetOps, d \in DeleteOps}

TaggedDocs ==
    {Doc(SampleTitle, <<>>, paths) :
        paths \in UNION {[ps -> TaggedItems] : ps \in SUBSET {Lit.P_ac, Lit.P_b}}}

\* ---- documents whose one operation differs in its parameters, request
\* ---- body and responses
Q_a_opt   == ParamRef(Lit.S_query, Lit.N_a, FALSE, IntSchema)
Q_a_req   == ParamRef(Lit.S_query, Lit.N_a, TRUE, SR_Nil)
P_b_req   == ParamRef(Lit.S_path, Lit.N_b, TRUE, IntSchema)
P_b_opt   == ParamRef(<<32>> \o Lit.S_path, Lit.N_b, FALSE, SR_Ref(Lit.R_Pet))
Q_b_opt   == ParamRef(Lit.S_query, Lit.N_b_sp, FALSE, SR_NoValue)

PathLevelParams == SeqsUpTo({Q_a_opt, P_b_req, NilParamRef}, MaxParams)
OpLevelParams   == SeqsUpTo({Q_a_req, P_b_opt, Q_b_opt}, MaxParams)

\* request body and responses of the operation
Bodies == {<<NoRequestBody, ResponsesOf({})>>,
           <<NoRequestBody, ResponsesOf({Lit.C_default, Lit.C_200})>>,
           <<RequestBody(TRUE, JsonXmlContent), ResponsesOf({Lit.C_200})>>,
           <<RequestBody(FALSE, <<>>), ResponsesOf({Lit.C_404, Lit.C_default, Lit.C_200})>>}

ParamDocs ==
    {Doc(SampleTitle, SampleSchemas,
         [p \in {Lit.P_b} |->
            PathItem(pp, OpsOf(NoOperation,
                               Operation(<<Lit.T_r>>, op, b[1], b[2]), NoOperation))]) :
        pp \in PathLevelParams, op \in OpLevelParams, b \in Bodies}

\* ---- documents with nil entries
EdgeDocs ==
    {Doc(SampleTitle, SampleSchemas,
         [p \in {Lit.P_ac, Lit.P_b} |->
            IF p = Lit.P_ac THEN NilPathItem
            ELSE PathItem(<<Q_a_opt>>,
                          OpsOf(Operation(<<Lit.T_a>>, <<>>, NoRequestBody, <<>>),
                                NoOperation, NoOperation))])}

\* ---- build options
PatExactB   == Pattern(FALSE, TRUE, TRUE, TRUE, Lit.P_b)             \* "^/b$"
PatInvalid  == Pattern(FALSE, FALSE, FALSE, FALSE, <<40>>)       \* "("
PatBlank    == Pattern(TRUE, TRUE, FALSE, FALSE, <<>>)           \* " "

BuildOpts(inc, exc, ms, ps) ==
    [kind |-> "opts", includeTags |-> inc, excludeTags |-> exc, methods |-> ms,
     pathPatterns |-> ps]

NoFilters == BuildOpts(<<>>, <<>>, <<>>, <<>>)

TagOptions ==
    {BuildOpts(inc, exc, f[1], f[2]) :
        inc \in {<<>>, <<Lit.T_r>>, <<Lit.T_sp, Lit.T_a>>},
        exc \in {<<>>, <<Lit.T_a, Lit.T_sp>>},
        f \in {<<<<>>, <<>>>>, <<<<GET>>, <<PatBlank, PatInvalid, PatExactB>>>>}}

\* ---- method and path filters without a tag filter, and one with
PatPrefixA == Pattern(FALSE, TRUE, TRUE, FALSE, <<47, 97>>)      \* "^/a"

FilterOptions ==
    {BuildOpts(<<>>, exc, ms, ps) :
        exc \in {<<>>},
        ms \in {<<>>, <<DELETE>>, <<POST, GET>>},
        ps \in {<<PatInvalid>>, <<PatBlank>>, <<PatInvalid, PatPrefixA>>,
                <<PatPrefixA, PatExactB>>}}
    \cup {BuildOpts(<<>>, <<Lit.T_r>>, <<DELETE>>, <<PatInvalid, PatBlank, PatExactB>>),
          BuildOpts(<<Lit.T_r>>, <<>>, <<POST, GET>>, <<PatExactB>>)}

\* ---- converted documents: the v2 definitions kept next to the v3 schemas.
\* "P" is an object with a property that is no map, "A" a $ref to a
\* definition, "E" no map, "L" an array, "N" has a nil v3 schema and "X" has
\* no v3 schema at all
V2Definitions ==
    LET int == V2Schema(StrVal(Lit.S_integer), StrVal(<<32, 105>>), Absent, Absent)
        toP == V2Schema(Absent, Absent, Absent, StrVal(S_definitions \o <<80>>))
        obj == [V2Schema(StrVal(<<32>> \o S_object), Absent, Absent, Absent)
                EXCEPT !.properties =
                    MapVal([n \in {Lit.N_a, Lit.N_b, <<99>>} |->
                               IF n = Lit.N_a THEN int
                               ELSE IF n = Lit.N_b THEN toP ELSE NumVal(<<49>>)])]
    IN  [n \in {<<80>>, <<65>>, <<69>>, <<78>>, <<76>>, <<88>>} |->
            CASE n = <<80>> -> obj
              [] n = <<65>> -> toP
              [] n = <<69>> -> NumVal(<<49>>)
              [] n = <<76>> -> V2Schema(StrVal(<<97, 114, 114>>), Absent, toP, Absent)
              [] OTHER      -> int]

ConvertedDocs ==
    {[Doc(SampleTitle, sch, <<>>) EXCEPT !.v2defs = defs] :
        sch \in {SampleSchemas,
                 [n \in DOMAIN SampleSchemas |->
                     IF n = <<80>> THEN SR_Ref(Lit.R_Pet)
                     ELSE IF n = <<65>> THEN SR_NoValue ELSE SampleSchemas[n]]},
        defs \in {MapVal(V2Definitions), MapVal(<<>>), NumVal(<<49>>),
                  MapVal([n \in {<<80>>} |-> V2Definitions[<<65>>]])}}

\* ---- converted documents with cached v2 operations: "/b" with a get and
\* a post whose request body and "200" response have the same content
BareObject == SR_Val(S_object, <<>>, <<>>, SR_Nil)

CachedContents ==
    {[m \in {Lit.M_json, Lit.M_xml} |-> MediaType(BareObject, NoExample, <<>>)],
     [m \in {Lit.M_json, Lit.M_xml} |->
         MediaType(IF m = Lit.M_json THEN SR_Ref(Lit.R_Pet) ELSE BareObject, NoExample, <<>>)],
     [m \in {Lit.M_json} |-> MediaType(PetSchema, NoExample, <<>>)],
     [m \in {Lit.M_xml} |-> MediaType(SR_NoValue, Example(Lit.N_a), <<>>)]}

V2BodyParam(schema) ==
    V2Param(StrVal(V2Str.body), StrVal(Lit.N_a), Absent, schema, Absent, Absent, Absent)
V2QueryParam ==
    V2Param(StrVal(Lit.S_query), StrVal(Lit.N_b), Absent, Absent, StrVal(V2Str.string),
            Absent, Absent)

\* the "parameters" of the cached operation
CachedParameters ==
    {ListVal(<<V2BodyParam(V2Schema(Absent, Absent, Absent, StrVal(S_definitions \o <<80>>)))>>),
     ListVal(<<V2QueryParam,
               V2BodyParam(V2Schema(Absent, Absent, Absent, StrVal(S_definitions \o <<80>>)))>>),
     ListVal(<<V2BodyParam(V2Schema(Absent, Absent, Absent,
                                    StrVal(<<111>> \o S_definitions \o <<80>>)))>>),
     ListVal(<<V2BodyParam(V2Schema(StrVal(V2Str.object), Absent, Absent, Absent))>>),
     ListVal(<<V2BodyParam(Absent)>>),
     ListVal(<<V2BodyParam(NumVal(<<49>>))>>),
     ListVal(<<V2QueryParam>>),
     Absent}

CachedDocs ==
    {[Doc(SampleTitle, <<>>,
          [p \in {Lit.P_b} |->
             PathItem(<<>>,
                      OpsOf(Operation(<<Lit.T_a>>, <<>>, RequestBody(FALSE, c),
                                      [code \in {Lit.C_200} |-> ResponseRef(<<>>, c)]),
                            Operation(<<Lit.T_r>>, <<>>, RequestBody(TRUE, c),
                                      [code \in {Lit.C_200, Lit.C_default} |->
                                          IF code = Lit.C_200 THEN ResponseRef(<<>>, c)
                                          ELSE DefaultResponse]),
                            NoOperation))])
      EXCEPT !.v2ops = ops] :
        c \in CachedContents,
        ops \in {MapVal([p \in {Lit.P_b} |-> [m \in ms |-> V2Op(ps, Absent)]]) :
                    ms \in {{GET, POST}, {POST}}, ps \in CachedParameters}
                \cup {MapVal(<<>>), Absent}}

CachedOptions ==
    {NoFilters,
     BuildOpts(<<>>, <<Lit.T_r>>, <<>>, <<>>),
     BuildOpts(<<>>, <<>>, <<GET>>, <<PatExactB>>)}

\* ---- documents with a version, a description and servers, and one without
\* an info section
RichDocs ==
    {[Doc(SampleTitle, SampleSchemas,
          [p \in {Lit.P_ac, Lit.P_b} |->
             IF p = Lit.P_ac
             THEN PathItem(<<>>, OpsOf(TaggedOp(<<Lit.T_a>>), NoOperation, TaggedOp(<<Lit.T_r>>)))
             ELSE PathItem(pp, OpsOf(TaggedOp(<<>>),
                                     Operation(<<Lit.T_r>>, <<Q_a_req>>, b[1], b[2]),
                                     NoOperation))])
      EXCEPT !.version = <<32, 49>>, !.description = <<100, 32>>,
             !.servers = <<Server(<<32, 117>>, <<>>), NilServer, Server(<<118>>, <<100>>)>>] :
        pp \in {<<>>, <<Q_a_opt, P_b_req>>}, b \in Bodies}

NoInfoDocs ==
    {[d EXCEPT !.info = FALSE] :
        d \in {Doc(<<>>, <<>>, <<>>),
               Doc(<<>>, SampleSchemas, [p \in {Lit.P_b} |->
                      PathItem(<<>>, OpsOf(TaggedOp(<<Lit.T_a>>), NoOperation, NoOperation))])}}

BuildInputs ==
    ((TaggedDocs \cup RichDocs) \X (TagOptions \cup FilterOptions))
    \cup ((ParamDocs \cup EdgeDocs \cup ConvertedDocs \cup NoInfoDocs \cup {NilDoc})
            \X {NoFilters})
    \cup (CachedDocs \X CachedOptions)

-----------------------------------------------------------------------------
(* The builder as a state machine: the model is built, then built again      *)

Build ==
    /\ sm.kind = "none"
    /\ \E h \in Seeds : sm' = BuildServiceModel(doc, opts, h)
    /\ UNCHANGED <<doc, opts, sm2>>
    /\ UNCHANGED <<loaderVars, preVars, cacheVars>>

Rebuild ==
    /\ sm.kind = "model"
    /\ sm2.kind = "none"
    /\ \E h \in Seeds : sm2' = BuildServiceModel(doc, opts, h)
    /\ UNCHANGED <<doc, opts, sm>>
    /\ UNCHANGED <<loaderVars, preVars, cacheVars>>

InitBuild ==
    /\ CacheIdle
    /\ \E in \in BuildInputs : doc = in[1] /\ opts = in[2]
    /\ sm = NoModel
    /\ sm2 = NoModel
    /\ input = <<>>
    /\ settings = DefaultSettings
    /\ exists = {}
    /\ ctxDone = FALSE
    /\ pc = "done"
    /\ i = 0
    /\ attempts = 0
    /\ backoff = 0
    /\ lastErr = "none"
    /\ requests = 0
    /\ resps = <<>>
    /\ waits = <<>>
    /\ raw = NoRaw
    /\ location = <<>>
    /\ rootGets = 0
    /\ rootResp = NoOutcome
    /\ converted = NoBytes
    /\ refReads = {}
    /\ steps = NoSteps
    /\ result = NoResult
    /\ v2in = NoBytes
    /\ v2out = NoOutput

NextBuild == Build \/ Rebuild

SpecBuild == InitBuild /\ [][NextBuild]_vars

-----------------------------------------------------------------------------
(* The specification of the preprocessor alone                              *)

InitPre ==
    /\ CacheIdle
    /\ v2in \in V2OpDocs \cup V2ShapeDocs
    /\ v2out = NoOutput
    /\ doc = NoDoc
    /\ opts = NoOpts
    /\ sm = NoModel
    /\ sm2 = NoModel
    /\ input = <<>>
    /\ settings = DefaultSettings
    /\ exists = {}
    /\ ctxDone = FALSE
    /\ pc = "done"
    /\ i = 0
    /\ attempts = 0
    /\ backoff = 0
    /\ lastErr = "none"
    /\ requests = 0
    /\ resps = <<>>
    /\ waits = <<>>
    /\ raw = NoRaw
    /\ location = <<>>
    /\ rootGets = 0
    /\ rootResp = NoOutcome
    /\ converted = NoBytes
    /\ refReads = {}
    /\ steps = NoSteps
    /\ result = NoResult

NextPre == Preprocess \/ LoadPreprocess

SpecPre == InitPre /\ [][NextPre]_vars

-----------------------------------------------------------------------------
(* The process-wide v2 store under concurrent invocations                   *)

\* the goroutines; goroutine p loads the document p, a document instance of
\* its own (convertV2ToV3 returns a new *openapi3.T, loader.go:138, 197)
MaxProcs == 2
Procs == 1..MaxProcs

\* the store entry made of the bytes of document d: its three fields
StoreEntry(d) == [kind |-> "entry", definitions |-> d, rawBytes |-> d, operations |-> d]
NoEntry       == [kind |-> "none"]

\* what a getter returned: the map of document d, nil, or nothing yet
Got(d)  == [kind |-> "map", of |-> d]
GotNil  == [kind |-> "nil"]
NotRead == [kind |-> "unread"]

\* sync.RWMutex: Lock waits for the writer and the readers to leave, RLock
\* for the writer
CanLock_DespiteReaders(m) == m.writer = 0

CanLock(m)  == m.writer = 0 /\ m.readers = {}
CanRLock(m) == m.writer = 0

\* v2SchemaStorage.store[doc] = ...: a variant that keeps a single slot for
\* all documents, and the assignment of the code
Assign_SingleSlot(s, d, e) == [x \in DOMAIN s |-> e]

Assign(s, d, e) == [s EXCEPT ![d] = e]

\* Load calls SetV2SchemaDefinitions(v3doc, raw) (loader.go:143, 202), which
\* returns before the lock when the bytes have no definitions
\* (v2compat.go:230-238)
SetEnter(p) ==
    /\ call[p].pc = "load"
    /\ call' = [call EXCEPT ![p].pc = IF call[p].hasDefinitions THEN "lock" ELSE "loaded"]
    /\ UNCHANGED <<store, mu>>
    /\ UNCHANGED <<loaderVars, builderVars, preVars>>

\* v2SchemaStorage.mu.Lock() (v2compat.go:243)
SetLock(p) ==
    /\ call[p].pc = "lock"
    /\ CanLock(mu)
    /\ mu' = [mu EXCEPT !.writer = p]
    /\ call' = [call EXCEPT ![p].pc = "write"]
    /\ UNCHANGED store
    /\ UNCHANGED <<loaderVars, builderVars, preVars>>

\* the assignment of the entry (v2compat.go:245-253)
SetStore(p) ==
    /\ call[p].pc = "write"
    /\ store' = Assign(store, p, StoreEntry(p))
    /\ call' = [call EXCEPT ![p].pc = "unlock"]
    /\ UNCHANGED mu
    /\ UNCHANGED <<loaderVars, builderVars, preVars>>

\* the deferred Unlock; Load returns the document
SetUnlock(p) ==
    /\ call[p].pc = "unlock"
    /\ mu' = [mu EXCEPT !.writer = 0]
    /\ call' = [call EXCEPT ![p].pc = "loaded"]
    /\ UNCHANGED store
    /\ UNCHANGED <<loaderVars, builderVars, preVars>>

\* the document d is out of Load's hands
Loaded(d) == call[d].pc \notin {"load", "lock", "write", "unlock"}

\* BuildServiceModel(ctx, d, nil) is called on a loaded document, by the
\* goroutine that loaded it or by another; it first calls
\* getV2SchemaDefinitions(d) (v2compat.go:406), later getV2Operations(d)
\* (v2compat.go:541, 569)
GetEnter(p) ==
    /\ call[p].pc = "loaded"
    /\ \E d \in Procs :
          /\ Loaded(d)
          /\ call' = [call EXCEPT ![p].pc = "rlock", ![p].of = d, ![p].fn = "definitions"]
    /\ UNCHANGED <<store, mu>>
    /\ UNCHANGED <<loaderVars, builderVars, preVars>>

\* v2SchemaStorage.mu.RLock() (v2compat.go:262, 275)
GetRLock(p) ==
    /\ call[p].pc = "rlock"
    /\ CanRLock(mu)
    /\ mu' = [mu EXCEPT !.readers = @ \cup {p}]
    /\ call' = [call EXCEPT ![p].pc = "read"]
    /\ UNCHANGED store
    /\ UNCHANGED <<loaderVars, builderVars, preVars>>

\* the look-up of store[doc] and the field returned (v2compat.go:264-267,
\* 277-280)
GetRead(p) ==
    /\ call[p].pc = "read"
    /\ LET data == store[call[p].of]
           got  == IF data.kind # "entry" THEN GotNil
                   ELSE IF call[p].fn = "definitions" THEN Got(data.definitions)
                   ELSE Got(data.operations)
       IN  call' = [call EXCEPT ![p].pc = "runlock",
                                ![p].definitions = IF call[p].fn = "definitions"
                                                   THEN got ELSE @,
                                ![p].operations = IF call[p].fn = "operations"
                                                  THEN got ELSE @]
    /\ UNCHANGED <<store, mu>>
    /\ UNCHANGED <<loaderVars, builderVars, preVars>>

\* the deferred RUnlock; after the definitions the operations are fetched,
\* after the operations BuildServiceModel goes on without the store
GetRUnlock(p) ==
    /\ call[p].pc = "runlock"
    /\ mu' = [mu EXCEPT !.readers = @ \ {p}]
    /\ call' = IF call[p].fn = "definitions"
               THEN [call EXCEPT ![p].pc = "rlock", ![p].fn = "operations"]
               ELSE [call EXCEPT ![p].pc = "built"]
    /\ UNCHANGED store
    /\ UNCHANGED <<loaderVars, builderVars, preVars>>

InitCache ==
    /\ store = [d \in Procs |-> NoEntry]
    /\ mu = [writer |-> 0, readers |-> {}]
    /\ call \in [Procs -> {[pc |-> "load", hasDefinitions |-> b, of |-> 0,
                             fn |-> "none", definitions |-> NotRead,
                             operations |-> NotRead] : b \in BOOLEAN}]
    /\ v2in = NoBytes
    /\ v2out = NoOutput
    /\ doc = NoDoc
    /\ opts = NoOpts
    /\ sm = NoModel
    /\ sm2 = NoModel
    /\ input = <<>>
    /\ settings = DefaultSettings
    /\ exists = {}
    /\ ctxDone = FALSE
    /\ pc = "done"
    /\ i = 0
    /\ attempts = 0
    /\ backoff = 0
    /\ lastErr = "none"
    /\ requests = 0
    /\ resps = <<>>
    /\ waits = <<>>
    /\ raw = NoRaw
    /\ location = <<>>
    /\ rootGets = 0
    /\ rootResp = NoOutcome
    /\ converted = NoBytes
    /\ refReads = {}
    /\ steps = NoSteps
    /\ result = NoResult

NextCache ==
    \E p \in Procs :
        \/ SetEnter(p)
        \/ SetLock(p)
        \/ SetStore(p)
        \/ SetUnlock(p)
        \/ GetEnter(p)
        \/ GetRLock(p)
        \/ GetRead(p)
        \/ GetRUnlock(p)

SpecCache == InitCache /\ [][NextCache]_vars

-----------------------------------------------------------------------------
(* Properties of BuildServiceModel                                          *)

Built     == sm.kind = "model"
BuiltBoth == sm.kind = "model" /\ sm2.kind = "model"

\* the operations of the document: <<path, method>> of every non-nil operation
DocOperations ==
    {pm \in (DOMAIN doc.paths) \X Methods :
        /\ doc.paths[pm[1]].kind # "nil"
        /\ doc.paths[pm[1]].ops[pm[2]].kind # "nil"}

OperationAt(pm) == doc.paths[pm[1]].ops[pm[2]]

\* the tags an operation carries: its tag strings without the surrounding
\* blanks, the empty ones aside
CarriedTags(op) == {TrimSpace(op.Tags[k]) : k \in 1..Len(op.Tags)} \ {<<>>}

\* the endpoints of the model for <<path, method>>
EndpointsAt(m, pm) ==
    {k \in 1..Len(m.Endpoints) :
        m.Endpoints[k].Path = pm[1] /\ m.Endpoints[k].Method = pm[2]}

Retained(pm) == EndpointsAt(sm, pm) # {}

\* C1: BuildServiceModel is deterministic: two runs over the same document
\* and the same options give identical ServiceModel values, whatever order
\* the maps are iterated in.
C1_Deterministic == BuiltBoth => sm = sm2

C1_Witness ==
    /\ BuiltBoth
    /\ \E k \in 1..Len(sm2.Endpoints) :
          /\ Len(sm2.Endpoints[k].Parameters) >= 3
          /\ Len(sm2.Endpoints[k].Responses) >= 2
          /\ sm2.Endpoints[k].RequestBody.kind = "body"

\* position of a method in GET, POST, PUT, DELETE, PATCH, HEAD, OPTIONS, TRACE
MethodRank(m) ==
    LET order == <<GET, POST, PUT, DELETE, PATCH, HEAD, OPTIONS, TRACE>>
    IN  CHOOSE k \in 1..Len(order) : order[k] = m

\* C2: Endpoints are ordered by path ascending (string order) and, for equal
\* paths, by the fixed method order; each endpoint's Responses are ordered
\* by status-code string.
C2_EndpointOrder ==
    Built =>
        /\ \A x, y \in 1..Len(sm.Endpoints) :
              x < y =>
                 \/ StrLess(sm.Endpoints[x].Path, sm.Endpoints[y].Path)
                 \/ /\ sm.Endpoints[x].Path = sm.Endpoints[y].Path
                    /\ MethodRank(sm.Endpoints[x].Method) < MethodRank(sm.Endpoints[y].Method)
        /\ \A k \in 1..Len(sm.Endpoints) :
              LET rs == sm.Endpoints[k].Responses IN
              \A x, y \in 1..Len(rs) : x < y => StrLess(rs[x].Status, rs[y].Status)

C2_Witness ==
    /\ Built
    /\ Len(sm.Endpoints) = 4
    /\ sm.Endpoints[1].Path = Lit.P_ac /\ sm.Endpoints[1].Method = GET
    /\ sm.Endpoints[2].Path = Lit.P_ac /\ sm.Endpoints[2].Method = DELETE
    /\ sm.Endpoints[3].Path = Lit.P_b
    /\ Len(sm.Endpoints[4].Responses) = 2

\* C3: ServiceModel.Tags is exactly the sorted, duplicate-free set of the
\* tags carried by the retained endpoints; a tag that appears only on
\* endpoints removed by a filter is not in it.
C3_TagsOfRetained ==
    Built =>
        /\ \A x, y \in 1..Len(sm.Tags) : x < y => StrLess(sm.Tags[x], sm.Tags[y])
        /\ Range(sm.Tags) =
              UNION {CarriedTags(OperationAt(pm)) : pm \in {q \in DocOperations : Retained(q)}}

C3_Witness ==
    /\ Built
    /\ Len(sm.Tags) >= 1
    /\ Lit.T_a \notin Range(sm.Tags)
    /\ \E pm \in DocOperations : ~Retained(pm) /\ Lit.T_a \in CarriedTags(OperationAt(pm))
    /\ \E pm \in DocOperations : Retained(pm) /\ Lit.T_r \in CarriedTags(OperationAt(pm))

\* the include and exclude sets as configured: the option's tags without
\* surrounding blanks, the empty ones aside
IncludeSet == {TrimSpace(t) : t \in Range(opts.includeTags)} \ {<<>>}
ExcludeSet == {TrimSpace(t) : t \in Range(opts.excludeTags)} \ {<<>>}

\* the operation passes the method and path filters
PassesOtherFilters(pm) ==
    /\ allowByMethod(pm[2], buildConfig(opts))
    /\ allowByPath(pm[1], buildConfig(opts))

\* C4: an endpoint is retained iff (the include set is empty or the endpoint
\* carries a tag of the include set) and (it carries no tag of the exclude
\* set); an excluded tag removes the endpoint whatever else it carries.
C4_TagPolicy ==
    Built =>
        \A pm \in DocOperations :
            PassesOtherFilters(pm) =>
               (Retained(pm) <=>
                  /\ (IncludeSet = {} \/ CarriedTags(OperationAt(pm)) \cap IncludeSet # {})
                  /\ CarriedTags(OperationAt(pm)) \cap ExcludeSet = {})

C4_Witness ==
    /\ Built
    /\ IncludeSet # {}
    /\ \E pm \in DocOperations :
          /\ PassesOtherFilters(pm)
          /\ CarriedTags(OperationAt(pm)) \cap IncludeSet # {}
          /\ CarriedTags(OperationAt(pm)) \cap ExcludeSet # {}
          /\ ~Retained(pm)
    /\ \E pm \in DocOperations : Retained(pm)

\* the parameters of a list that have a value, as <<in, name>> keys
ParamKeyOf(pref) == <<TrimSpace(pref.In), TrimSpace(pref.Name)>>
KeysOf(prefs) == {ParamKeyOf(prefs[k]) : k \in {j \in 1..Len(prefs) : prefs[j].Value}}

\* the last parameter of the list with the key
LastWithKey(prefs, key) ==
    prefs[CHOOSE k \in 1..Len(prefs) :
            /\ prefs[k].Value /\ ParamKeyOf(prefs[k]) = key
            /\ \A j \in (k + 1)..Len(prefs) :
                  ~(prefs[j].Value /\ ParamKeyOf(prefs[j]) = key)]

\* C5: the Parameters of a retained endpoint are the path-level parameters
\* overlaid by the operation-level ones keyed by (in, name): on a collision
\* the operation-level parameter wins, each key occurs once, and the list is
\* sorted by (in, name).
C5_ParamMerge ==
    Built =>
        \A pm \in DocOperations : \A e \in EndpointsAt(sm, pm) :
            LET ps     == sm.Endpoints[e].Parameters
                pathPs == doc.paths[pm[1]].Parameters
                opPs   == OperationAt(pm).Parameters
                key(q) == <<q.In, q.Name>>
            IN  /\ {key(ps[k]) : k \in 1..Len(ps)} = KeysOf(pathPs) \cup KeysOf(opPs)
                /\ \A x, y \in 1..Len(ps) :
                      x < y =>
                         \/ StrLess(ps[x].In, ps[y].In)
                         \/ ps[x].In = ps[y].In /\ StrLess(ps[x].Name, ps[y].Name)
                /\ \A k \in 1..Len(ps) :
                      LET src == IF key(ps[k]) \in KeysOf(opPs)
                                 THEN LastWithKey(opPs, key(ps[k]))
                                 ELSE LastWithKey(pathPs, key(ps[k]))
                      IN  /\ ps[k].Required = src.Required
                          /\ ps[k].Schema = toSchemaOrRef(src.Schema)

C5_Witness ==
    /\ Built
    /\ \E pm \in DocOperations : \E e \in EndpointsAt(sm, pm) :
          LET ps == sm.Endpoints[e].Parameters IN
          /\ Len(ps) = 3
          /\ Q_a_opt \in Range(doc.paths[pm[1]].Parameters)
          /\ Q_a_req \in Range(OperationAt(pm).Parameters)
          /\ \E k \in 1..Len(ps) :
                ps[k].In = Lit.S_query /\ ps[k].Name = Lit.N_a /\ ps[k].Required

-----------------------------------------------------------------------------
(* Properties of Load and fetchWithRetry                                    *)

Returned      == pc = "done"
ReturnedErr   == Returned /\ result.kind = "err"
ReturnedDoc   == Returned /\ result.kind = "doc"

\* C6: a file:// input to Load always fails with InputError, with or
\* without a host part and whatever files exist; no document is returned.
C6_FileURLAlwaysInputError ==
    (Returned /\ IsFileURLInput(input))
        => (result.kind = "err" /\ result.code = InputError)

\* the retryable outcomes, in the words of the fetcher's contract
ContractTransient(o) == o.err \/ o.status >= 500 \/ o.status = 429

\* every request of the fetch failed transiently and the fetch ran to its end
AllTransientExhausted ==
    /\ Returned
    /\ ~ctxDone
    /\ requests > 0
    /\ \A k \in 1..Len(resps) : ContractTransient(resps[k])

\* C7: when every GET fails transiently, the fetch fails only after the
\* initial request plus MaxRetries retries.
C7_InitialPlusMaxRetries ==
    (AllTransientExhausted /\ settings.MaxRetries >= 0)
        => requests = 1 + settings.MaxRetries

\* a status that is never retried: a 4xx other than 429
NonRetryable4xx(o) == ~o.err /\ o.status \in 400..499 /\ o.status # 429

RECURSIVE Pow2(_)
Pow2(n) == IF n <= 0 THEN 1 ELSE 2 * Pow2(n - 1)

FetchOfBytesFailed ==
    \/ (requests > 0 /\ rootGets = 0 /\ ReturnedErr /\ raw.kind = "none")
    \/ (rootGets > 0 /\ (rootResp.err \/ rootResp.status >= 400))

\* C10: error kind by input class: an unreadable local path is InputError
\* with the absolute path as Location, a failed fetch of an http/https URL
\* is NetworkError with the URL as Location, an empty or blank input is
\* InputError before any I/O.
C10_ErrorKindByInputClass ==
    Returned =>
        /\ (TrimSpace(input) = <<>>) =>
              /\ result.kind = "err" /\ result.code = InputError
              /\ requests = 0 /\ rootGets = 0 /\ raw.kind = "none"
        /\ (TrimSpace(input) # <<>> /\ ~IsURL(input) /\ raw.kind = "none") =>
              /\ result = SpecError(InputError, Abs(input))
              /\ requests = 0
        /\ (IsHTTPInput(input) /\ FetchOfBytesFailed) =>
              result = SpecError(NetworkError, input)

\* the version a document announces, its version value taken as written,
\* quoted or not
AnnouncedVersion(d) ==
    IF HasPrefix(d.openapi.s, <<51, 46>>) THEN 3
    ELSE IF HasPrefix(d.swagger.s, <<50, 46>>) THEN 2
    ELSE 0

\* Load has run the version detector on the bytes in raw and has returned
DetectedAndReturned ==
    Returned /\ raw.kind = "raw" /\ raw.syntax /\ rootGets = 0

\* C11: for bytes that parse, the detector gives 3 when openapi starts with
\* "3.", else 2 when swagger starts with "2." (quoted or unquoted), and fails
\* otherwise; Load reports the failure as ParseError and goes no further.
C11_VersionDetection ==
    DetectedAndReturned =>
        CASE AnnouncedVersion(raw) = 3 ->
                       result = LoadV3(raw, location, newLoader(settings, TRUE))
          [] AnnouncedVersion(raw) = 2 -> result = LoadV2(raw, location)
          [] OTHER -> result = SpecError(ParseError, location)

-----------------------------------------------------------------------------
(* Claims about the preprocessor                                            *)

PreReturned == v2out.kind = "ret"

\* the operations of a v2 document: <<path, key>> with a method key
V2Operations(bytes) ==
    IF ~bytes.yaml \/ bytes.paths.kind # "map" THEN {}
    ELSE {pk \in UNION {{<<p, k>> : k \in (IF bytes.paths.entries[p].kind = "map"
                                           THEN DOMAIN bytes.paths.entries[p].entries
                                           ELSE {})} :
                        p \in DOMAIN bytes.paths.entries} :
             /\ ToLower(pk[2]) \in V2MethodKeys
             /\ bytes.paths.entries[pk[1]].entries[pk[2]].kind = "map"}

V2OperationAt(bytes, pk) == bytes.paths.entries[pk[1]].entries[pk[2]]

V2ParamsOf(op) == IF op.parameters.kind = "list" THEN op.parameters.items ELSE <<>>

V2Bodies(op) == SelectSeq(V2ParamsOf(op), LAMBDA pm : ParamIn(pm, V2Str.body))
V2Forms(op)  == SelectSeq(V2ParamsOf(op), LAMBDA pm : ParamIn(pm, V2Str.formData))
V2Others(op) ==
    SelectSeq(V2ParamsOf(op), LAMBDA pm : pm.kind = "map" /\ ~ParamIn(pm, V2Str.body))

MultiBody(op) == Len(V2Bodies(op)) >= 2 /\ Len(V2Forms(op)) = 0
MixedBody(op) == Len(V2Bodies(op)) >= 1 /\ Len(V2Forms(op)) >= 1

\* the names in the required list of a schema
RequiredNames(sch) ==
    IF sch.required.kind = "list"
    THEN {sch.required.items[k].s : k \in 1..Len(sch.required.items)}
    ELSE {}

V2MapParams(op) == SelectSeq(V2ParamsOf(op), LAMBDA pm : pm.kind = "map")

V2ConsumesOf(op) == IF op.consumes.kind = "list" THEN op.consumes.items ELSE <<>>

FormDataTypes ==
    {StrVal(V2Str.string), StrVal(<<105, 110, 116, 101, 103, 101, 114>>), StrVal(<<110, 117, 109, 98, 101, 114>>),
     StrVal(<<98, 111, 111, 108, 101, 97, 110>>), StrVal(<<97, 114, 114, 97, 121>>),
     StrVal(<<102, 105, 108, 101>>)}

\* C15: in the mixed rewrite every formData parameter made from a body
\* parameter has a formData type: the schema's type, format and items when
\* the schema's type is one, and string when the schema is a $ref, an inline
\* object or has no type.
C15_PrimitiveFormDataType ==
    PreReturned =>
        \A pk \in V2Operations(v2in) :
            LET before == V2OperationAt(v2in, pk)
                old    == V2MapParams(before)
                new    == V2ParamsOf(V2OperationAt(v2out.out, pk))
            IN  MixedBody(before) =>
                    \A k \in 1..Len(old) :
                        ParamIn(old[k], V2Str.body) =>
                            /\ new[k].type \in FormDataTypes
                            /\ old[k].schema.kind = "map" =>
                                  IF old[k].schema.type \in FormDataTypes
                                  THEN /\ new[k].type = old[k].schema.type
                                       /\ new[k].format = old[k].schema.format
                                       /\ new[k].items = old[k].schema.items
                                  ELSE new[k].type = StrVal(V2Str.string)

\* some operation has two or more body parameters, or a body parameter
\* together with a formData parameter
NeedsRewrite(bytes) ==
    \E pk \in V2Operations(bytes) :
        MultiBody(V2OperationAt(bytes, pk)) \/ MixedBody(V2OperationAt(bytes, pk))

\* C14: the preprocessor reports a change exactly when some operation has two
\* or more body parameters or mixes body and formData parameters; otherwise,
\* also when it fails or does not recognise the document's shape, it returns
\* the very bytes it was given; and Load goes on to the conversion with the
\* rewritten bytes in the first case and with the original bytes in every
\* other.
C14_ChangedIffRewritten ==
    /\ PreReturned =>
          /\ v2out.changed <=> (v2in.yaml /\ NeedsRewrite(v2in))
          /\ ~v2out.changed => v2out.out = v2in
          /\ v2out.err => ~v2out.changed
          /\ v2out.changed => v2out.out.form = "marshalled"
    /\ converted.kind = "bytes" =>
          /\ ~NeedsRewrite(v2in) => converted = v2in
          /\ NeedsRewrite(v2in) => converted = preprocessV2ForCompatibility(v2in).out
          /\ (PreReturned /\ v2out.changed) => converted = v2out.out

\* an operation with one body parameter next to another parameter: nothing
\* to rewrite, the bytes come back as they were and go on to the conversion
C14_Witness ==
    /\ PreReturned
    /\ ~v2out.changed
    /\ v2out.out = v2in
    /\ converted = v2in
    /\ \E pk \in V2Operations(v2in) :
          /\ Len(V2Bodies(V2OperationAt(v2in, pk))) = 1
          /\ Len(V2ParamsOf(V2OperationAt(v2in, pk))) >= 2

-----------------------------------------------------------------------------
(* Claims about the steps of Load after the version switch                   *)

\* C16: when Validate ran, Load returns the document if it found nothing or
\* only an unresolved reference; for every other validation error Load
\* returns no document but a SpecError with code ValidationError and a
\* location that is not empty.
C16_ValidationFailurePolicy ==
    (Returned /\ steps.validate # "none") =>
        IF steps.validate \in {"ok", "unresolved"}
        THEN result.kind = "doc"
        ELSE /\ result.kind = "err"
             /\ result.code = ValidationError
             /\ result.location # <<>>

\* a step of Load failed with an error other than an unresolved reference
\* found by Validate
StepFailed ==
    \/ steps.load \notin {"none", "ok"}
    \/ steps.convert \notin {"none", "ok"}
    \/ steps.resolve \notin {"none", "ok"}
    \/ steps.validate \notin {"none", "ok", "unresolved"}

\* C17: whenever the fetch, the version detection, the conversion, the
\* resolution of references or the validation failed with an error other
\* than an unresolved reference found by Validate, Load returns an error and
\* no document.
C17_NoErrorSwallowed ==
    Returned =>
        /\ raw.kind = "none" => result.kind = "err"
        /\ (raw.kind = "raw" /\ rootGets = 0 /\ detectSpecVersion(raw) = 0)
              => result.kind = "err"
        /\ StepFailed => result.kind = "err"

\* C19: with a URL as input and file references not enabled in the settings
\* the loader reads no external reference target, whatever its scheme; with a
\* local file as input the target of a relative or file: reference of a v3
\* document is read.
C19_ExternalRefPolicy ==
    Returned =>
        /\ (IsURL(input) /\ ~settings.AllowFileRefs) => refReads = {}
        /\ (/\ ~IsURL(input)
            /\ raw.kind = "raw"
            /\ detectSpecVersion(raw) = 3
            /\ raw.ref.kind = "str"
            /\ ParseURL(raw.ref.s).Scheme \in {<<>>, S_file})
              => raw.ref.s \in refReads

-----------------------------------------------------------------------------
(* Claims about the errors and the schema table of BuildServiceModel         *)

\* BuildServiceModel returned an error
BuildFailed == sm.kind \notin {"none", "model", "panic"}

\* C18: every failure of Load and of BuildServiceModel is a SpecError with
\* one of the five codes; BuildServiceModel on a nil document returns no
\* model but a SpecError with code ConversionError.
C18_StructuredErrors ==
    /\ result.kind \notin {"none", "doc"} =>
          /\ result.kind = "err"
          /\ result.code \in {InputError, NetworkError, ParseError, ValidationError,
                              ConversionError}
    /\ BuildFailed =>
          /\ sm.kind = "err"
          /\ sm.code \in {InputError, NetworkError, ParseError, ValidationError,
                          ConversionError}
    /\ (doc.kind = "nil" /\ sm.kind # "none") =>
          /\ sm.kind = "err"
          /\ sm.code = ConversionError

\* the component schemas of the document: the names with a schema node
ComponentNames == {n \in DOMAIN doc.schemas : doc.schemas[n].kind # "nil"}

\* the name has a v2 definition that is a mapping
HasV2Definition(n) ==
    /\ doc.v2defs.kind = "map"
    /\ n \in DOMAIN doc.v2defs.entries
    /\ doc.v2defs.entries[n].kind = "map"

\* C20: the schema table has exactly the names of the document's component
\* schemas (a name whose schema node is nil has no entry); an entry is made
\* from the v2 definition of its name when there is one and it is a mapping,
\* else from the v3 schema; its Name is its key; and when what it is made
\* from is a $ref the entry carries the name and nothing else.
C20_SchemaExtraction ==
    Built =>
        /\ DOMAIN sm.Schemas = ComponentNames
        /\ \A n \in ComponentNames :
              LET from == IF HasV2Definition(n)
                          THEN toSchemaOrRefFromV2(doc.v2defs.entries[n], <<>>)
                          ELSE toSchemaOrRef(doc.schemas[n])
              IN  /\ sm.Schemas[n].Name = n
                  /\ IF from.kind = "ref"
                     THEN sm.Schemas[n] = SOR_Schema(n, <<>>, <<>>, <<>>, SOR_Nil)
                     ELSE sm.Schemas[n] = [from EXCEPT !.Name = n]
                  /\ (HasV2Definition(n) /\ doc.v2defs.entries[n].ref.kind # "str")
                        => sm.Schemas[n].Type = AsString(doc.v2defs.entries[n].type)

\* a converted document whose table takes "P" from its v2 definition, an
\* object with properties, "A" as a placeholder for a v2 $ref, and "E" from
\* the v3 schema because its v2 definition is no mapping
C20_Witness ==
    /\ Built
    /\ HasV2Definition(<<80>>) /\ HasV2Definition(<<65>>)
    /\ doc.v2defs.entries[<<65>>].ref.kind = "str"
    /\ <<69>> \in DOMAIN doc.v2defs.entries /\ ~HasV2Definition(<<69>>)
    /\ doc.schemas[<<80>>].kind = "val"
    /\ DOMAIN sm.Schemas[<<80>>].Properties = {Lit.N_a, Lit.N_b}
    /\ sm.Schemas[<<65>>] = SOR_Schema(<<65>>, <<>>, <<>>, <<>>, SOR_Nil)
    /\ sm.Schemas[<<69>>].Type = S_object
    /\ <<88>> \notin DOMAIN sm.Schemas

-----------------------------------------------------------------------------
(* Claims about cancellation, the waits and the termination of the fetch    *)

\* the fetch is under way
Fetching == pc \in {"fetch", "backoff"}

\* fetchWithRetry was called and has returned
FetchEnded == IsHTTPInput(input) /\ pc \notin {"start", "fetch", "backoff"}

\* C22: once the context is cancelled no request of the fetch succeeds and
\* the fetch returns an error; a cancellation during a backoff wait ends the
\* wait at once, with no further attempt.
C22_CooperativeCancellation ==
    [][/\ (ctxDone /\ requests' # requests) =>
              ~IsSuccess(resps'[Len(resps')])
       /\ (ctxDone /\ pc = "backoff") =>
              /\ pc' = "done"
              /\ requests' = requests
              /\ waits' = waits
              /\ backoff' = backoff
       /\ (ctxDone' /\ pc' = "done") =>
              result' = SpecError(NetworkError, input)]_vars

\* the second request got a 500 from the server, the context was cancelled
\* during the wait that followed, and the fetch returned with attempts left
C22_Witness ==
    /\ ctxDone
    /\ pc = "done"
    /\ lastErr = "ctx"
    /\ attempts >= 3
    /\ Len(resps) = 2
    /\ resps[2] = [err |-> FALSE, status |-> 500]
    /\ result.kind = "err"

\* C26: a backoff delay is waited only before a next attempt: a fetch that
\* ran to its end without cancellation has waited one delay less than it has
\* issued requests, and none after its last permitted attempt.
C26_WaitOnlyBeforeNextAttempt ==
    (FetchEnded /\ ~ctxDone) => Len(waits) = requests - 1

\* C27: every fetch terminates, after at least one request and at most
\* 1 + MaxRetries of them, exactly one when MaxRetries <= 0; no request
\* follows a response with status < 300 or a non-retryable status.
C27_FetchTerminates ==
    /\ [](/\ FetchEnded => requests >= 1
          /\ requests <= (IF settings.MaxRetries <= 0 THEN 1
                          ELSE 1 + settings.MaxRetries)
          /\ \A k \in 1..Len(resps) :
                (IsSuccess(resps[k]) \/ NonRetryable4xx(resps[k]))
                    => (k = Len(resps) /\ ~Fetching))
    /\ (Fetching ~> ~Fetching)

\* a fetch that gave up after three transient failures
C27_Witness ==
    /\ FetchEnded
    /\ ~ctxDone
    /\ requests = 3
    /\ settings.MaxRetries = 3
    /\ \A k \in 1..3 : ContractTransient(resps[k])
    /\ result = SpecError(NetworkError, input)

\* C28: the root document of an http/https input is obtained by the retried
\* fetch alone: no second GET of the root URL is issued, so no answer given
\* after the first successful response can fail the load.
C28_SingleFetchOfRoot ==
    IsHTTPInput(input) =>
        /\ rootGets = 0
        /\ rootResp = NoOutcome
        /\ steps.load # "get"

-----------------------------------------------------------------------------
(* Claims about the method and path filters and the endpoint IDs            *)

\* the method allow-list and the path patterns as configured: a blank
\* pattern configures nothing
MethodList         == Range(opts.methods)
ConfiguredPatterns == {q \in Range(opts.pathPatterns) : ~q.blank}
ValidPatterns      == {q \in ConfiguredPatterns : q.valid}

\* the options with the path patterns that are no valid regular expression
\* taken out
ValidPatternsAlone ==
    [opts EXCEPT !.pathPatterns =
        LET keep[k \in 0..Len(opts.pathPatterns)] ==
                IF k = 0 THEN <<>>
                ELSE IF opts.pathPatterns[k].valid
                     THEN Append(keep[k - 1], opts.pathPatterns[k])
                     ELSE keep[k - 1]
        IN  keep[Len(opts.pathPatterns)]]

\* the tag policy of the options
PassesTagPolicy(pm) ==
    /\ (IncludeSet = {} \/ CarriedTags(OperationAt(pm)) \cap IncludeSet # {})
    /\ CarriedTags(OperationAt(pm)) \cap ExcludeSet = {}

\* C24: an endpoint is retained iff its method is in the method allow-list
\* (when that is not empty), its path matches one of the configured path
\* patterns (when there is one) and the tag policy admits it; an invalid
\* pattern matches nothing, so the model is the one built from the valid
\* patterns alone, and has no endpoint when every pattern is invalid.
C24_MethodAndPathFilters ==
    Built =>
        /\ \A pm \in DocOperations :
              Retained(pm) <=>
                 /\ (MethodList = {} \/ pm[2] \in MethodList)
                 /\ (ConfiguredPatterns = {} \/
                        \E q \in ValidPatterns : MatchString(Compile(q), pm[1]))
                 /\ PassesTagPolicy(pm)
        /\ (ConfiguredPatterns # {} /\ ValidPatterns = {}) => sm.Endpoints = <<>>
        /\ (ValidPatterns # {}) =>
              \A h \in Seeds : sm = BuildServiceModel(doc, ValidPatternsAlone, h)

\* an invalid and a valid pattern with a method list: one operation is kept,
\* one is dropped for its method alone and one for its path alone
C24_Witness ==
    /\ Built
    /\ MethodList # {}
    /\ ConfiguredPatterns \ ValidPatterns # {}
    /\ ValidPatterns # {}
    /\ \E pm \in DocOperations : Retained(pm)
    /\ \E pm \in DocOperations :
          /\ pm[2] \notin MethodList
          /\ \E q \in ValidPatterns : MatchString(Compile(q), pm[1])
          /\ PassesTagPolicy(pm)
    /\ \E pm \in DocOperations :
          /\ pm[2] \in MethodList
          /\ ~\E q \in ValidPatterns : MatchString(Compile(q), pm[1])
          /\ PassesTagPolicy(pm)

\* C25: every endpoint has ID = method, one space, path, and no two
\* endpoints of one model share an ID.
C25_EndpointIDs ==
    Built =>
        /\ \A k \in 1..Len(sm.Endpoints) :
              sm.Endpoints[k].ID
                  = sm.Endpoints[k].Method \o <<32>> \o sm.Endpoints[k].Path
        /\ \A x, y \in 1..Len(sm.Endpoints) :
              sm.Endpoints[x].ID = sm.Endpoints[y].ID => x = y

\* a model with four endpoints: two paths with the same two methods each
C25_Witness ==
    /\ Built
    /\ Len(sm.Endpoints) = 4
    /\ sm.Endpoints[1].Method = sm.Endpoints[3].Method
    /\ sm.Endpoints[1].Path = sm.Endpoints[2].Path
    /\ sm.Endpoints[1].ID = GET \o <<32>> \o Lit.P_ac

-----------------------------------------------------------------------------
(* Claims about the content enhancement, the effect of the filters and the  *)
(* robustness of BuildServiceModel                                          *)

\* the document was converted from v2 and its operations are cached
HasCachedOperations == doc.kind = "doc" /\ doc.v2ops.kind = "map"

\* the cached v2 operation of <<path, method>>, Absent when there is none
CachedOperation(pm) ==
    IF HasCachedOperations
       /\ pm[1] \in DOMAIN doc.v2ops.entries
       /\ pm[2] \in DOMAIN doc.v2ops.entries[pm[1]]
    THEN doc.v2ops.entries[pm[1]][pm[2]]
    ELSE Absent

\* the body parameters of the cached operation
CachedBodyParams(pm) ==
    LET op == CachedOperation(pm) IN
    IF op.kind # "map" \/ op.parameters.kind # "list" THEN <<>>
    ELSE SelectSeq(op.parameters.items,
                   LAMBDA q : q.kind = "map" /\ q.in = StrVal(V2Str.body))

\* the $ref of the schema of the body parameter, <<>> when it has none
CachedBodyRef(pm) ==
    LET bs == CachedBodyParams(pm) IN
    IF bs = <<>> THEN <<>>
    ELSE IF bs[1].schema.kind # "map" THEN <<>>
    ELSE AsString(bs[1].schema.ref)

\* a bare object schema: concrete, of type object, without properties
IsBareObject(sor) ==
    sor.kind = "schema" /\ sor.Type = S_object /\ DOMAIN sor.Properties = {}

\* the contents of the endpoint of <<path, method>>: each as the pair of the
\* media list in the model and the content of the v3 document it is made of
ContentPairs(pm) ==
    LET op == OperationAt(pm) IN
    UNION {
        (IF sm.Endpoints[e].RequestBody.kind = "body"
         THEN {<<sm.Endpoints[e].RequestBody.Content, op.RequestBody.Content>>}
         ELSE {})
        \cup {<<sm.Endpoints[e].Responses[r].Content,
                op.Responses[sm.Endpoints[e].Responses[r].Status].Content>> :
                 r \in 1..Len(sm.Endpoints[e].Responses)}
        : e \in EndpointsAt(sm, pm)}

\* C21: wherever the content of a request body or response resolves to a
\* bare object schema and the cached v2 operation of the same path and
\* method has a body parameter with the schema $ref #/definitions/X, the
\* media schema is the reference #/components/schemas/X; every other
\* content is exactly what the v3 conversion produced.
C21_ContentEnhancement ==
    (Built /\ HasCachedOperations) =>
        \A pm \in DocOperations : \A c \in ContentPairs(pm) :
            LET conv == toMediaList(c[2], 0)
                ref  == CachedBodyRef(pm)
            IN  /\ Len(c[1]) = Len(conv)
                /\ \A k \in 1..Len(conv) :
                      IF IsBareObject(conv[k].Schema) /\ HasPrefix(ref, S_definitions)
                      THEN c[1][k] = [conv[k] EXCEPT !.Schema =
                                         SOR_Ref(S_components
                                                 \o SubSeq(ref, Len(S_definitions) + 1, Len(ref)))]
                      ELSE c[1][k] = conv[k]

\* C21, as the code has it: only the first media type of a content, in the
\* order of the mime types, is looked at, and never for a GET; when it is a
\* bare object and the first body parameter of the cached operation has a
\* mapping as schema with a string $ref, its schema becomes the reference
\* #/components/schemas/ followed by the $ref without its first
\* "#/definitions/"; everything else is what the v3 conversion produced.
C21_FirstMediaOfNonGet ==
    (Built /\ HasCachedOperations) =>
        \A pm \in DocOperations : \A c \in ContentPairs(pm) :
            LET conv == toMediaList(c[2], 0)
                ref  == CachedBodyRef(pm)
            IN  /\ Len(c[1]) = Len(conv)
                /\ \A k \in 1..Len(conv) :
                      IF k = 1 /\ pm[2] # GET /\ IsBareObject(conv[k].Schema) /\ ref # <<>>
                      THEN c[1][k] = [conv[k] EXCEPT !.Schema =
                                         SOR_Ref(S_components \o RemoveFirst(ref, S_definitions))]
                      ELSE c[1][k] = conv[k]

\* a post whose two media types are bare objects and whose cached body
\* parameter refers to a definition: the first became the reference, the
\* second stayed; and a get beside it with the same content, left alone
C21_Witness ==
    /\ Built
    /\ HasCachedOperations
    /\ CachedBodyRef(<<Lit.P_b, POST>>) = S_definitions \o <<80>>
    /\ CachedBodyRef(<<Lit.P_b, GET>>) = S_definitions \o <<80>>
    /\ \E e \in EndpointsAt(sm, <<Lit.P_b, POST>>) :
          LET ms == sm.Endpoints[e].RequestBody.Content IN
          /\ Len(ms) = 2
          /\ ms[1].Schema = SOR_Ref(S_components \o <<80>>)
          /\ IsBareObject(ms[2].Schema)
          /\ sm.Endpoints[e].Responses[1].Content[1].Schema = SOR_Ref(S_components \o <<80>>)
    /\ \E e \in EndpointsAt(sm, <<Lit.P_b, GET>>) :
          IsBareObject(sm.Endpoints[e].RequestBody.Content[1].Schema)

\* a is b with some of its elements left out
RECURSIVE IsSubsequence(_, _)
IsSubsequence(a, b) ==
    IF a = <<>> THEN TRUE
    ELSE IF b = <<>> THEN FALSE
    ELSE IF Head(a) = Head(b) THEN IsSubsequence(Tail(a), Tail(b))
    ELSE IsSubsequence(a, Tail(b))

\* a tag, method or path filter is configured
Filtered ==
    IncludeSet # {} \/ ExcludeSet # {} \/ MethodList # {} \/ ConfiguredPatterns # {}

\* the model of the document built without filters
Unfiltered(h) == BuildServiceModel(doc, NoFilters, h)

\* C29: filters only remove endpoints: the Endpoints of a model built with
\* filters are a subsequence of those of the model built without, every
\* retained endpoint unchanged, and Title, Version, Description, Servers and
\* Schemas are those of the unfiltered model.
C29_FiltersOnlyRemove ==
    (Built /\ Filtered) =>
        \A h \in Seeds :
            LET u == Unfiltered(h) IN
            u.kind = "model" =>
                /\ IsSubsequence(sm.Endpoints, u.Endpoints)
                /\ sm.Title = u.Title
                /\ sm.Version = u.Version
                /\ sm.Description = u.Description
                /\ sm.Servers = u.Servers
                /\ sm.Schemas = u.Schemas

\* an include tag and a method list removed three of four endpoints; the one
\* left has parameters, a request body and responses, and the model has
\* servers and schemas
C29_Witness ==
    /\ Built
    /\ IncludeSet # {}
    /\ MethodList # {}
    /\ Len(sm.Endpoints) = 1
    /\ Len(Unfiltered(0).Endpoints) = 4
    /\ Len(sm.Endpoints[1].Parameters) = 2
    /\ sm.Endpoints[1].RequestBody.kind = "body"
    /\ Len(sm.Endpoints[1].Responses) >= 1
    /\ Len(sm.Endpoints[1].Tags) >= 1
    /\ Len(sm.Servers) = 2
    /\ DOMAIN sm.Schemas # {}

\* C30: BuildServiceModel never aborts abnormally: for every non-nil
\* document and whatever v2 data is kept for it, it returns a model or an
\* error value.
C30_NeverPanics ==
    (doc.kind = "doc" /\ sm.kind # "none") => sm.kind \in {"model", "error"}

-----------------------------------------------------------------------------
(* Claim about the v2 store under concurrency                               *)

\* the goroutines that stand at an access to the store
WritingStore == {p \in DOMAIN call : call[p].pc = "write"}
ReadingStore == {p \in DOMAIN call : call[p].pc = "read"}

====
